---------------------------- MODULE Spec2Model ----------------------------
(***************************************************************************)
(* Model of the multi-agent coordination core of jenklin/active-travel:    *)
(* the BaseAgent contract, the four specialist agents (Health & Recovery,  *)
(* Golf Operations, Budget Control, Transport & Logistics) and the         *)
(* TravelExperienceAgent orchestrator with its Promise.all fan-out.        *)
(*                                                                         *)
(* Representation of JavaScript values:                                    *)
(*   - a text (string) is a sequence of tokens; concatenation is \o; a     *)
(*     location is a text whose tokens are single characters, so that      *)
(*     toLowerCase() and includes() work on characters;                    *)
(*   - an optional value is Undefined (<<>>) or Some(v) (<<v>>);           *)
(*   - a context object is a function from field names to values, its      *)
(*     DOMAIN being the keys that are `in` the object.                     *)
(***************************************************************************)
EXTENDS Integers, Sequences, FiniteSets, TLC

VARIABLES
    agent,      \* the agent whose analyze() is running
    context,    \* the context object analyze() was called with
    pc,         \* position inside analyze()
    result,     \* the recommendation analyze() returned: <<>> or <<rec>>
    error,      \* the error analyze() threw: <<>> or <<err>>
    inner,      \* TXA: per specialist, the settled promise of agent.analyze()
    wrapper,    \* TXA: per specialist, the promise of get*Recommendation()
    queue,      \* TXA: the microtask queue (FIFO)
    joined,     \* TXA: Promise.all state
    recs,       \* the four recommendations given to applyCoordinationRules
    final,      \* what applyCoordinationRules returned: <<>> or <<rec>>
    run,        \* how many times analyze() has been called with this context
    firstRun,   \* outcomes of earlier calls kept for comparison: <<>> or <<[result, error], ...>>
    clock,      \* the time new Date() would read; it advances with every step
    other,      \* a second, concurrent call of analyze(): <<>> or <<its locals>>
    slowLuxuryClient  \* a SlowLuxuryClient and the calls in progress on it: <<>> when none is constructed

vars == <<agent, context, pc, result, error, inner, wrapper, queue, joined, recs, final,
          run, firstRun, clock, other, slowLuxuryClient>>

---------------------------------------------------------------------------
(* JavaScript values *)

Undefined == <<>>
Some(v) == <<v>>
Val(o) == o[1]
IsDefined(o) == o # Undefined

\* context.field : undefined when the key is absent
Get(obj, field) == IF field \in DOMAIN obj THEN obj[field] ELSE Undefined

\* truthiness of an optional number (undefined and 0 are falsy)
TruthyNum(o) == IsDefined(o) /\ Val(o) # 0

\* relational operators on an optional number: a comparison with undefined is false
Lt(o, n) == IsDefined(o) /\ Val(o) < n
Gt(o, n) == IsDefined(o) /\ Val(o) > n
Ge(o, n) == IsDefined(o) /\ Val(o) >= n

\* `${x}` of an optional number
Str(o) == IF IsDefined(o) THEN ToString(Val(o)) ELSE "undefined"

\* the empty object {} and object construction by spread
EmptyObject == [k \in {} |-> Undefined]
Field(k, v) == [x \in {k} |-> v]
\* { ...a, ...b } : the keys of b override those of a
Spread(a, b) == [k \in (DOMAIN a) \cup (DOMAIN b) |-> IF k \in DOMAIN b THEN b[k] ELSE a[k]]
\* an object without the keys in ks
Without(obj, ks) == [k \in (DOMAIN obj) \ ks |-> obj[k]]

---------------------------------------------------------------------------
(* Texts *)

\* String.prototype.includes
Includes(text, part) ==
    \E i \in 0..(Len(text) - Len(part)) : SubSeq(text, i + 1, i + Len(part)) = part

\* Array.prototype.join
RECURSIVE Join(_, _)
Join(parts, sep) ==
    IF Len(parts) = 0 THEN <<>>
    ELSE IF Len(parts) = 1 THEN parts[1]
    ELSE parts[1] \o sep \o Join(Tail(parts), sep)

\* Array.prototype.filter on a sequence
Filter(seq, Keep(_)) ==
    LET F[i \in 0..Len(seq)] ==
            IF i = 0 THEN <<>>
            ELSE IF Keep(seq[i]) THEN Append(F[i - 1], seq[i]) ELSE F[i - 1]
    IN  F[Len(seq)]

\* Array.prototype.map on a sequence
Map(seq, Fn(_)) == [i \in 1..Len(seq) |-> Fn(seq[i])]

\* the concatenation of a sequence of sequences (spread of mapped groups)
Flatten(seqs) ==
    LET F[i \in 0..Len(seqs)] == IF i = 0 THEN <<>> ELSE F[i - 1] \o seqs[i]
    IN  F[Len(seqs)]

Priorities == {"low", "medium", "high", "critical"}

---------------------------------------------------------------------------
(* BaseAgent *)

AgentName(a) ==
    CASE a = "health"    -> <<"Health", "&", "Recovery", "Agent">>
      [] a = "golf"      -> <<"Vietnam", "Golf", "Operations", "Agent">>
      [] a = "budget"    -> <<"Budget", "&", "Spend", "Control", "Agent">>
      [] a = "transport" -> <<"Transport", "&", "Logistics", "Agent">>
      [] a = "txa"       -> <<"Travel", "Experience", "Agent", "(TXA)">>

\* the requiredFields list each analyze() passes to validateContext
RequiredFields(a) ==
    CASE a = "health"    -> <<"tripId", "userId", "date", "consecutiveActiveDays">>
      [] a = "golf"      -> <<"tripId", "userId", "date", "location">>
      [] a = "budget"    -> <<"tripId", "userId", "date", "trip", "categorySpend">>
      [] a = "transport" -> <<"tripId", "userId", "date", "currentLocation">>
      [] a = "txa"       -> <<"tripId", "userId", "date", "trip", "currentItinerary">>

\* validateContext: requiredFields.filter(field => !(field in context))
MissingFieldsFirstOnly(ctx, requiredFields) ==
    LET NotIn(field) == field \notin DOMAIN ctx
        missing == Filter(requiredFields, NotIn)
    IN  IF Len(missing) > 0 THEN <<missing[1]>> ELSE <<>>
MissingFields(ctx, requiredFields) ==
    LET NotIn(field) == field \notin DOMAIN ctx
    IN  Filter(requiredFields, NotIn)

\* the Error validateContext throws
MissingContextError(a, missing) ==
    [name    |-> "Error",
     message |-> AgentName(a) \o <<"missing", "required", "context", "fields:">>
                 \o Join([i \in 1..Len(missing) |-> <<missing[i]>>], <<",">>)]

\* a TypeError thrown by reading a property of undefined
TypeError(what) ==
    [name    |-> "TypeError",
     message |-> <<"Cannot", "read", "properties", "of", "undefined", "(reading">> \o <<what>> \o <<")">>]

\* createRecommendation: approvalRequired ?? false, priority ?? 'medium'
\* a variant that stamps the rationale with the time, as toDecision stamps its record
createRecommendationStamped(decision, rationale, inputSignals, outputActions, options) ==
    [decision         |-> decision,
     rationale        |-> rationale \o <<"at", ToString(clock)>>,
     inputSignals     |-> inputSignals,
     outputActions    |-> outputActions,
     approvalRequired |-> IF "approvalRequired" \in DOMAIN options
                          THEN options.approvalRequired ELSE FALSE,
     priority         |-> IF "priority" \in DOMAIN options
                          THEN options.priority ELSE "medium"]
createRecommendationNoApproval(decision, rationale, inputSignals, outputActions, options) ==
    [decision         |-> decision,
     rationale        |-> rationale,
     inputSignals     |-> inputSignals,
     outputActions    |-> outputActions,
     approvalRequired |-> FALSE,
     priority         |-> IF "priority" \in DOMAIN options
                          THEN options.priority ELSE "medium"]
createRecommendation(decision, rationale, inputSignals, outputActions, options) ==
    [decision         |-> decision,
     rationale        |-> rationale,
     inputSignals     |-> inputSignals,
     outputActions    |-> outputActions,
     approvalRequired |-> IF "approvalRequired" \in DOMAIN options
                          THEN options.approvalRequired ELSE FALSE,
     priority         |-> IF "priority" \in DOMAIN options
                          THEN options.priority ELSE "medium"]

\* the outcome of an async analyze(): a fulfilled or a rejected promise
Fulfilled(rec) == [state |-> "fulfilled", value |-> <<rec>>, reason |-> <<>>]
Rejected(err)  == [state |-> "rejected",  value |-> <<>>,    reason |-> <<err>>]
Pending        == [state |-> "pending",   value |-> <<>>,    reason |-> <<>>]

---------------------------------------------------------------------------
(* HealthRecoveryAgent *)

DefaultStepsTarget == 8000

\* context.wellnessProfile?.stepsTarget || 8000
StepsTarget(ctx) ==
    LET wp == Get(ctx, "wellnessProfile")
        st == IF IsDefined(wp) THEN Get(Val(wp), "stepsTarget") ELSE Undefined
    IN  IF TruthyNum(st) THEN Val(st) ELSE DefaultStepsTarget

HealthCollectSignals(ctx) ==
    LET wp == Get(ctx, "wellnessProfile")
        pa == Get(ctx, "plannedActivity")
    IN  [sleepQuality          |-> Get(ctx, "sleepQuality"),
         energyRating          |-> Get(ctx, "energyRating"),
         consecutiveActiveDays |-> Get(ctx, "consecutiveActiveDays"),
         environmentalStress   |-> Get(ctx, "environmentalStress"),
         mobilityLevel         |-> IF IsDefined(wp) THEN Get(Val(wp), "mobilityLevel") ELSE Undefined,
         stepsTarget           |-> StepsTarget(ctx),
         plannedSteps          |-> IF IsDefined(pa) THEN Get(Val(pa), "estimatedSteps") ELSE Undefined,
         physicalLoad          |-> IF IsDefined(pa) THEN Get(Val(pa), "physicalLoad") ELSE Undefined]

requiresFullRestDayEnergyBelow3(signals) ==
    \/ TruthyNum(signals.sleepQuality) /\ Lt(signals.sleepQuality, 3)
    \/ TruthyNum(signals.energyRating) /\ Lt(signals.energyRating, 3)
    \/ Ge(signals.consecutiveActiveDays, 5)
requiresFullRestDayAllOf(signals) ==
    /\ TruthyNum(signals.sleepQuality) /\ Lt(signals.sleepQuality, 3)
    /\ TruthyNum(signals.energyRating) /\ Lt(signals.energyRating, 2)
    /\ Ge(signals.consecutiveActiveDays, 5)
requiresFullRestDay(signals) ==
    \/ TruthyNum(signals.sleepQuality) /\ Lt(signals.sleepQuality, 3)
    \/ TruthyNum(signals.energyRating) /\ Lt(signals.energyRating, 2)
    \/ Ge(signals.consecutiveActiveDays, 5)

recommendFullRestDay(signals) ==
    LET reasons ==
            (IF TruthyNum(signals.sleepQuality) /\ Lt(signals.sleepQuality, 3)
             THEN << <<"poor", "sleep", "quality", "(", Str(signals.sleepQuality), "/5)">> >>
             ELSE <<>>)
         \o (IF TruthyNum(signals.energyRating) /\ Lt(signals.energyRating, 2)
             THEN << <<"critically", "low", "energy", "(", Str(signals.energyRating), "/5)">> >>
             ELSE <<>>)
         \o (IF Ge(signals.consecutiveActiveDays, 5)
             THEN << <<Str(signals.consecutiveActiveDays), "consecutive", "active", "days">> >>
             ELSE <<>>)
    IN  createRecommendation(
            <<"Cancel", "all", "planned", "activities", "-", "full", "rest", "day", "required">>,
            <<"Recovery", "day", "needed", "due", "to:">> \o Join(reasons, <<",">>) \o <<".">>
              \o <<"Traveler well-being requires complete rest to prevent burnout and maintain trip enjoyment.">>,
            signals,
            << <<"Cancel all scheduled activities for the day">>,
               <<"Schedule spa or massage treatment">>,
               <<"Allow sleeping in without alarm">>,
               <<"Light pool or lounge time only">>,
               <<"Early dinner and bedtime">> >>,
            [approvalRequired |-> TRUE, priority |-> "critical"])

requiresActivityModeration(signals, ctx) ==
    IF ~IsDefined(Get(ctx, "plannedActivity")) THEN FALSE
    ELSE \/ TruthyNum(signals.plannedSteps) /\ Gt(signals.plannedSteps, signals.stepsTarget)
         \/ /\ signals.physicalLoad = Some("high")
            /\ TruthyNum(signals.energyRating)
            /\ Lt(signals.energyRating, 4)
         \/ Ge(signals.consecutiveActiveDays, 3) /\ signals.physicalLoad = Some("high")

recommendActivityModeration(signals, ctx) ==
    LET pa == Get(ctx, "plannedActivity")
        substitutions ==
            (IF TruthyNum(signals.plannedSteps) /\ Gt(signals.plannedSteps, signals.stepsTarget)
             THEN << <<"Reduce", "walking", "to", "<", ToString(signals.stepsTarget), "steps">>,
                     <<"Consider private car for longer distances">>,
                     <<"Schedule midday rest break">> >>
             ELSE <<>>)
         \o (IF IsDefined(pa) /\ Get(Val(pa), "type") = Some("cultural")
             THEN << <<"Select seated cultural experience (theater, tea ceremony)">>,
                     <<"Avoid walking tours">>,
                     <<"Choose venue with climate control">> >>
             ELSE <<>>)
    IN  createRecommendation(
            <<"Moderate", "planned", "activity", "to", "reduce", "physical", "load">>,
            <<"Current", "activity", "plan", "exceeds", "recommended", "load", "for", "energy", "level",
              Str(signals.energyRating), "/5", "after", Str(signals.consecutiveActiveDays),
              "consecutive", "active", "days.">>,
            signals,
            substitutions,
            [approvalRequired |-> TRUE, priority |-> "high"])

shouldInsertWellnessActivity(signals) ==
    \/ Ge(signals.consecutiveActiveDays, 3)
    \/ TruthyNum(signals.energyRating) /\ signals.energyRating = Some(3)
    \/ TruthyNum(signals.sleepQuality) /\ signals.sleepQuality = Some(3)

recommendWellnessActivity(signals) ==
    createRecommendation(
        <<"Insert", "wellness", "activity", "into", "schedule">>,
        <<"Proactive recovery recommended to maintain energy levels and prevent fatigue accumulation.">>,
        signals,
        << <<"Schedule 60-90 minute spa treatment">>,
           <<"Afternoon pool or relaxation time">>,
           <<"Early evening with no commitments">>,
           <<"Light, digestible dinner">>,
           <<"Ensure 8+ hours sleep opportunity">> >>,
        [approvalRequired |-> FALSE, priority |-> "medium"])

\* HealthRecoveryAgent.analyze after validateContext: the decision rules
HealthDecide(ctx) ==
    LET signals == HealthCollectSignals(ctx)
    IN  IF requiresFullRestDay(signals) THEN recommendFullRestDay(signals)
        ELSE IF requiresActivityModeration(signals, ctx) THEN recommendActivityModeration(signals, ctx)
        ELSE IF shouldInsertWellnessActivity(signals) THEN recommendWellnessActivity(signals)
        ELSE createRecommendation(
                <<"Proceed", "with", "planned", "activities">>,
                <<"Health indicators are within acceptable ranges. No intervention required.">>,
                signals,
                <<>>,
                [priority |-> "low"])

---------------------------------------------------------------------------
(* GolfOperationsAgent *)

UpperCaseLetters == <<"A", "B", "C", "D", "E", "F", "G", "H", "I", "J", "K", "L", "M",
                      "N", "O", "P", "Q", "R", "S", "T", "U", "V", "W", "X", "Y", "Z">>
LowerCaseLetters == <<"a", "b", "c", "d", "e", "f", "g", "h", "i", "j", "k", "l", "m",
                      "n", "o", "p", "q", "r", "s", "t", "u", "v", "w", "x", "y", "z">>

\* String.prototype.toLowerCase on a text of characters
toLowerCase(text) ==
    [i \in 1..Len(text) |->
        IF \E k \in 1..26 : UpperCaseLetters[k] = text[i]
        THEN LowerCaseLetters[CHOOSE k \in 1..26 : UpperCaseLetters[k] = text[i]]
        ELSE text[i]]

vietnamCities ==
    << <<"h", "a", "n", "o", "i">>,
       <<"d", "a", " ", "n", "a", "n", "g">>,
       <<"h", "o", "i", " ", "a", "n">>,
       <<"h", "o", " ", "c", "h", "i", " ", "m", "i", "n", "h">>,
       <<"s", "a", "i", "g", "o", "n">> >>

\* vietnamCities.some(city => location.toLowerCase().includes(city))
isVietnamLocation(location) ==
    \E k \in 1..Len(vietnamCities) : Includes(toLowerCase(location), vietnamCities[k])

PREFERRED_REPEAT_COURSES ==
    << <<"Ba", "Na", "Hills", "Golf", "Club">>, <<"Montgomerie", "Links", "Vietnam">> >>

IsPreferredCourse(course) ==
    \E k \in 1..Len(PREFERRED_REPEAT_COURSES) : Includes(course.name, PREFERRED_REPEAT_COURSES[k])

\* Array.prototype.find: the first element satisfying Test, or undefined
Find(seq, Test(_)) ==
    IF \E i \in 1..Len(seq) : Test(seq[i])
    THEN Some(seq[CHOOSE i \in 1..Len(seq) : Test(seq[i]) /\ \A j \in 1..(i - 1) : ~Test(seq[j])])
    ELSE Undefined

GolfCollectSignals(ctx) ==
    [consecutiveGolfDays |-> Get(ctx, "consecutiveGolfDays"),
     energyLevel         |-> Get(ctx, "energyLevel"),
     weather             |-> Get(ctx, "weatherForecast"),
     recentRounds        |-> 0,
     location            |-> Get(ctx, "location")]

\* a variant that counts an absent energy level as low
shouldSkipGolfAbsentEnergyLow(signals) ==
    \/ /\ Ge(signals.consecutiveGolfDays, 1)
       /\ ~Ge(signals.energyLevel, 4)
    \/ Ge(signals.consecutiveGolfDays, 2)
shouldSkipGolf(signals) ==
    \/ /\ Ge(signals.consecutiveGolfDays, 1)
       /\ TruthyNum(signals.energyLevel)
       /\ Lt(signals.energyLevel, 4)
    \/ Ge(signals.consecutiveGolfDays, 2)

recommendSkipGolf(signals) ==
    LET base == << <<"Cancel planned golf round">>, <<"Insert recovery day">> >>
        tooMany == Ge(signals.consecutiveGolfDays, 2)
        lowEnergy == TruthyNum(signals.energyLevel) /\ Lt(signals.energyLevel, 4)
        rationale ==
            IF tooMany
            THEN <<Str(signals.consecutiveGolfDays), "consecutive", "golf", "days", "exceeds",
                   "safe", "physical", "load.",
                   "Recovery day needed to prevent joint strain and fatigue.">>
            ELSE IF lowEnergy
            THEN <<"Energy", "level", Str(signals.energyLevel), "/5", "is", "too", "low", "for",
                   "golf", "after", "playing", "yesterday.",
                   "Risk of poor performance and reduced enjoyment.">>
            ELSE <<>>
        actions ==
            IF tooMany THEN Append(base, <<"Schedule spa or massage treatment">>)
            ELSE IF lowEnergy
            THEN Append(base, <<"Consider practice range or short game only (optional)">>)
            ELSE base
    IN  createRecommendation(
            <<"Skip", "golf", "-", "force", "recovery", "day">>,
            rationale, signals, actions,
            [approvalRequired |-> TRUE, priority |-> "high"])

\* a variant that substitutes above 32 degrees whatever the humidity
shouldSubstituteCourseAnyHumidity(signals, ctx) ==
    IF ~IsDefined(signals.weather) THEN FALSE
    ELSE LET weather == Val(signals.weather)
         IN  \/ TruthyNum(Get(weather, "rainfall")) /\ Gt(Get(weather, "rainfall"), 10)
             \/ weather.temperature > 32
shouldSubstituteCourse(signals, ctx) ==
    IF ~IsDefined(signals.weather) THEN FALSE
    ELSE LET weather == Val(signals.weather)
         IN  \/ TruthyNum(Get(weather, "rainfall")) /\ Gt(Get(weather, "rainfall"), 10)
             \/ weather.temperature > 35
             \/ weather.temperature > 32 /\ weather.humidity > 80

\* returns a settled promise: context.availableCourses.find throws when the list is undefined
recommendCourseSubstitution(signals, ctx) ==
    LET weather == Val(signals.weather)
        courses == Get(ctx, "availableCourses")
        IsBaNa(c) == Includes(c.name, <<"Ba", "Na", "Hills">>)
        rain == TruthyNum(Get(weather, "rainfall")) /\ Gt(Get(weather, "rainfall"), 10)
        heat == weather.temperature > 35
        baNaHills == Find(Val(courses), IsBaNa)
        actions ==
            IF rain
            THEN << <<"Convert to spa day or cultural activity">>,
                    <<"Reschedule golf to later in week">> >>
            ELSE IF heat
            THEN IF IsDefined(baNaHills)
                 THEN << <<"Substitute", "to">> \o Val(baNaHills).name \o <<"(cooler mountain climate)">>,
                         <<"Earlier tee time (before 8am)">> >>
                 ELSE << <<"Very early tee time (before 7am)">>,
                         <<"Extended midpoint break for hydration">> >>
            ELSE <<>>
        substitution ==
            IF rain
            THEN <<"Heavy rain forecast - course conditions will be poor">>
            ELSE IF heat
            THEN IF IsDefined(baNaHills)
                 THEN <<"High", "heat", "forecast", "(", ToString(weather.temperature), "C)", "-",
                        "mountain", "course", "preferred">>
                 ELSE <<"High", "heat", "forecast", "(", ToString(weather.temperature), "C)", "-",
                        "adjust", "timing">>
            ELSE <<>>
    IN  IF ~rain /\ heat /\ ~IsDefined(courses)
        THEN Rejected(TypeError("find"))
        ELSE Fulfilled(createRecommendation(
                <<"Substitute", "golf", "course", "due", "to", "weather">>,
                substitution, signals, actions,
                [approvalRequired |-> TRUE, priority |-> "high"]))

\* courses.reduce((closest, course) => course.travelTime < closest.travelTime ? course : closest)
\* a variant of the reduce that lets a later course of equal travel time win
ClosestCourseLastTie(courses) ==
    LET R[i \in 1..Len(courses)] ==
            IF i = 1 THEN courses[1]
            ELSE IF courses[i].travelTime <= R[i - 1].travelTime THEN courses[i] ELSE R[i - 1]
    IN  R[Len(courses)]
ClosestCourse(courses) ==
    LET R[i \in 1..Len(courses)] ==
            IF i = 1 THEN courses[1]
            ELSE IF courses[i].travelTime < R[i - 1].travelTime THEN courses[i] ELSE R[i - 1]
    IN  R[Len(courses)]

selectByTravelTime(courses, energyLevel) ==
    IF TruthyNum(energyLevel) /\ Lt(energyLevel, 4) THEN ClosestCourse(courses) ELSE courses[1]

buildCourseRationale(course, signals) ==
    LET reasons ==
            (IF IsPreferredCourse(course) THEN << <<"preferred course for repeat play">> >> ELSE <<>>)
         \o (IF course.climate \in {"cool", "mountain"}
             THEN << <<"cooler climate reduces physical stress">> >> ELSE <<>>)
         \o (IF course.travelTime < 30
             THEN << <<"minimal travel time preserves energy">> >> ELSE <<>>)
         \o (IF TruthyNum(signals.energyLevel) /\ Ge(signals.energyLevel, 4)
             THEN << <<"energy", "level", Str(signals.energyLevel), "/5", "supports", "full", "round">> >>
             ELSE <<>>)
    IN  IF Len(reasons) > 0
        THEN <<"Selected", "based", "on:">> \o Join(reasons, <<",">>) \o <<".">>
        ELSE <<"Course selected based on availability and schedule.">>

recommendOptimalCourse(signals, ctx) ==
    LET given == Get(ctx, "availableCourses")
        availableCourses == IF IsDefined(given) THEN Val(given) ELSE <<>>
        preferred == Find(availableCourses, IsPreferredCourse)
        recommendedCourse ==
            IF IsDefined(preferred) THEN Val(preferred)
            ELSE selectByTravelTime(availableCourses, signals.energyLevel)
    IN  IF Len(availableCourses) = 0
        THEN createRecommendation(
                <<"No", "course", "recommendation", "-", "insufficient", "data">>,
                <<"No available courses provided in context.">>,
                signals, <<>>, [priority |-> "low"])
        ELSE createRecommendation(
                <<"Proceed", "with", "golf", "at">> \o recommendedCourse.name,
                buildCourseRationale(recommendedCourse, signals),
                signals,
                << <<"Book", "tee", "time", "at">> \o recommendedCourse.name,
                   <<"Morning tee time only (before 10am)">>,
                   <<"Confirm caddie and cart included">>,
                   <<"Travel", "time:", ToString(recommendedCourse.travelTime), "minutes">> >>,
                [approvalRequired |-> FALSE, priority |-> "medium"])

OutsideVietnamInverted(location) == isVietnamLocation(location)
\* the gate of GolfOperationsAgent.analyze: !this.isVietnamLocation(context.location)
OutsideVietnam(location) == ~isVietnamLocation(location)

\* GolfOperationsAgent.analyze after validateContext, as a settled promise
GolfDecide(ctx) ==
    LET location == Get(ctx, "location")
        signals == GolfCollectSignals(ctx)
    IN  IF ~IsDefined(location) THEN Rejected(TypeError("toLowerCase"))
        ELSE IF OutsideVietnam(Val(location))
        THEN Fulfilled(createRecommendation(
                <<"No", "golf", "operations", "-", "outside", "Vietnam">>,
                <<"Golf activities are only scheduled in Da Nang / Hoi An, Vietnam.">>,
                [location |-> location], <<>>, [priority |-> "low"]))
        ELSE IF shouldSkipGolf(signals) THEN Fulfilled(recommendSkipGolf(signals))
        ELSE IF shouldSubstituteCourse(signals, ctx) THEN recommendCourseSubstitution(signals, ctx)
        ELSE Fulfilled(recommendOptimalCourse(signals, ctx))

---------------------------------------------------------------------------
(* BudgetControlAgent *)

\* Number.prototype.toFixed(1) of (num / den) * 100, for num >= 0
PercentFixed1(num, den) ==
    IF den = 0 THEN (IF num = 0 THEN <<"NaN">> ELSE <<"Infinity">>)
    ELSE LET tenths == (2000 * num + den) \div (2 * den)
         IN  <<ToString(tenths \div 10), ".", ToString(tenths % 10)>>

BudgetCollectSignals(ctx) ==
    LET budget == Val(Val(ctx.trip).budget)
    IN  [totalBudget           |-> budget.total,
         totalSpent            |-> budget.spent,
         remainingBudget       |-> budget.total - budget.spent,
         percentSpent          |-> PercentFixed1(budget.spent, budget.total),
         categoryCount         |-> Len(Val(ctx.categorySpend)),
         upcomingExpensesCount |-> 0,
         unusedPrepaidCount    |-> IF IsDefined(Get(ctx, "unusedPrepaid"))
                                  THEN Len(Val(ctx.unusedPrepaid)) ELSE 0]

\* variancePercent = planned > 0 ? variance / planned : 0, kept as the fraction num / den
calculateVariances(ctx) ==
    LET Variance(spend) ==
            [category |-> spend.category,
             planned  |-> spend.planned,
             actual   |-> spend.actual,
             variance |-> spend.actual - spend.planned,
             variancePercent |->
                 IF spend.planned > 0
                 THEN [num |-> spend.actual - spend.planned, den |-> spend.planned]
                 ELSE [num |-> 0, den |-> 1]]
    IN  Map(Val(ctx.categorySpend), Variance)

\* a variant with an inclusive alert threshold
OverAlertThresholdInclusive(v) == v.variancePercent.num * 10 >= v.variancePercent.den
\* v.variancePercent > 0.10
OverAlertThreshold(v) == v.variancePercent.num * 10 > v.variancePercent.den
\* v.variancePercent > 0.20
OverCriticalThreshold(v) == v.variancePercent.num * 5 > v.variancePercent.den

findOverruns(variances) == Filter(variances, OverAlertThreshold)
\* a variant that keeps only the first critical overrun
findCriticalOverrunsFirstOnly(variances) ==
    LET all == Filter(variances, OverCriticalThreshold)
    IN  IF Len(all) > 0 THEN <<all[1]>> ELSE <<>>
findCriticalOverruns(variances) == Filter(variances, OverCriticalThreshold)

\* Array.prototype.sort((a, b) => b.available - a.available): stable, descending
SortByAvailableDesc(seq) ==
    LET Insert(sorted, x) ==
            LET k == Cardinality({i \in 1..Len(sorted) : sorted[i].available >= x.available})
            IN  SubSeq(sorted, 1, k) \o <<x>> \o SubSeq(sorted, k + 1, Len(sorted))
        S[i \in 0..Len(seq)] == IF i = 0 THEN <<>> ELSE Insert(S[i - 1], seq[i])
    IN  S[Len(seq)]

findUnderbudgetCategories(ctx) ==
    LET Under(spend) == spend.actual < spend.planned
        Available(spend) == [category |-> spend.category, available |-> spend.planned - spend.actual]
    IN  SortByAvailableDesc(Map(Filter(Val(ctx.categorySpend), Under), Available))

SignedText(n) == IF n > 0 THEN <<"+", ToString(n)>> ELSE <<ToString(n)>>
Abs(n) == IF n < 0 THEN -n ELSE n

recommendCriticalAction(criticalOverruns, signals, ctx) ==
    LET Detail(c) == <<c.category, ":">> \o PercentFixed1(c.variance, c.planned) \o <<"%", "over", "budget">>
        Line(c) == <<c.category, ":", "planned", ToString(c.planned), ",", "actual", ToString(c.actual), "(">>
                   \o SignedText(c.variance) \o <<")">>
        underbudget == findUnderbudgetCategories(ctx)
        Source(cat) == <<"-", cat.category, ":", ToString(cat.available), "available">>
        actions ==
            << <<"URGENT: Review and approve continued spending">> >>
            \o Map(criticalOverruns, Line)
            \o << <<"Consider reallocating from other categories">>,
                  <<"Evaluate whether to adjust remaining trip plans">> >>
            \o (IF Len(underbudget) > 0
                THEN << <<>>, <<"Potential reallocation sources:">> >> \o Map(underbudget, Source)
                ELSE <<>>)
    IN  createRecommendation(
            <<"CRITICAL:", "Budget", "overrun", "detected">>,
            <<"Critical", "variance", "detected:">> \o Join(Map(criticalOverruns, Detail), <<";">>)
              \o <<".", "Total", "budget", "at">> \o signals.percentSpent \o <<"%", "utilized.">>,
            signals, actions,
            [approvalRequired |-> TRUE, priority |-> "critical"])

recommendBudgetAdjustment(overruns, signals, ctx) ==
    LET Detail(c) == <<c.category, ":">> \o PercentFixed1(c.variance, c.planned) \o <<"%", "over">>
        Line(c) == <<c.category, ":", "variance", "of", ToString(c.variance), "(">>
                   \o PercentFixed1(c.variance, c.planned) \o <<"%)">>
        underbudget == findUnderbudgetCategories(ctx)
        Reallocation(over) ==
            LET Covers(u) == u.available >= Abs(over.variance)
                source == Find(underbudget, Covers)
            IN  IF IsDefined(source)
                THEN << <<"-", "Reallocate", ToString(Abs(over.variance)), "from",
                          Val(source).category, "to", over.category>> >>
                ELSE <<>>
        actions ==
            << <<"Review category spending patterns">> >>
            \o Map(overruns, Line)
            \o (IF Len(underbudget) > 0
                THEN << <<>>, <<"Recommended reallocations:">> >> \o Flatten(Map(overruns, Reallocation))
                ELSE << <<>>, <<"No underbudget categories available for reallocation">>,
                        <<"Consider reducing upcoming discretionary expenses">> >>)
    IN  createRecommendation(
            <<"Budget", "variance", "detected", "-", "adjustment", "recommended">>,
            <<"Category", "overruns", "detected:">> \o Join(Map(overruns, Detail), <<";">>)
              \o <<".", "Reallocation recommended to maintain overall budget.">>,
            signals, actions,
            [approvalRequired |-> TRUE, priority |-> "high"])

recommendPrepaidUtilization(unusedPrepaid, signals) ==
    LET Sum[i \in 0..Len(unusedPrepaid)] == IF i = 0 THEN 0 ELSE Sum[i - 1] + unusedPrepaid[i].amount
        totalUnused == Sum[Len(unusedPrepaid)]
        Item(item) == <<"-", item.item, "(", item.category, "):", ToString(item.amount)>>
    IN  createRecommendation(
            <<"Unused", "prepaid", "value", "detected">>,
            <<ToString(totalUnused), "in prepaid expenses not yet utilized.",
              "Review opportunities to use or reallocate this value.">>,
            signals,
            << <<"Total", "unused", "prepaid", "value:", ToString(totalUnused)>>,
               <<>>,
               <<"Unutilized items:">> >>
            \o Map(unusedPrepaid, Item)
            \o << <<>>,
                  <<"Recommended actions:">>,
                  <<"Review whether these items can still be used">>,
                  <<"Consider booking alternative experiences of equal value">>,
                  <<"Document items that cannot be recovered">> >>,
            [approvalRequired |-> FALSE, priority |-> "medium"])

\* Math.abs(v.variancePercent) <= ALERT_THRESHOLD
WithinAlertThreshold(v) == Abs(v.variancePercent.num) * 10 <= v.variancePercent.den

buildSummary(signals, variances) ==
    LET onTrack == Filter(variances, WithinAlertThreshold)
        lines ==
            << <<"Total", "budget:", ToString(signals.totalBudget), ",", "Spent:",
                 ToString(signals.totalSpent), "(">> \o signals.percentSpent \o <<"%)">>,
               <<"Remaining:", ToString(signals.remainingBudget)>> >>
            \o (IF Len(onTrack) > 0
                THEN << <<ToString(Len(onTrack)), "categories", "on", "track">> >> ELSE <<>>)
    IN  Join(lines, <<".">>)

\* BudgetControlAgent.analyze after validateContext, as a settled promise
BudgetDecide(ctx) ==
    IF ~IsDefined(ctx.trip) THEN Rejected(TypeError("budget"))
    ELSE IF ~IsDefined(Get(Val(ctx.trip), "budget")) THEN Rejected(TypeError("total"))
    ELSE IF ~IsDefined(ctx.categorySpend) THEN Rejected(TypeError("Object.keys"))
    ELSE LET signals == BudgetCollectSignals(ctx)
             variances == calculateVariances(ctx)
             criticalOverruns == findCriticalOverruns(variances)
             overruns == findOverruns(variances)
             unusedPrepaid == Get(ctx, "unusedPrepaid")
         IN  IF Len(criticalOverruns) > 0
             THEN Fulfilled(recommendCriticalAction(criticalOverruns, signals, ctx))
             ELSE IF Len(overruns) > 0
             THEN Fulfilled(recommendBudgetAdjustment(overruns, signals, ctx))
             ELSE IF IsDefined(unusedPrepaid) /\ Len(Val(unusedPrepaid)) > 0
             THEN Fulfilled(recommendPrepaidUtilization(Val(unusedPrepaid), signals))
             ELSE Fulfilled(createRecommendation(
                     <<"Budget", "on", "track", "-", "no", "adjustments", "needed">>,
                     buildSummary(signals, variances),
                     signals, <<>>, [priority |-> "low"]))

---------------------------------------------------------------------------
(* TransportLogisticsAgent *)

AIRPORT_BUFFER == 120
DOMESTIC_AIRPORT_BUFFER == 90
COURSE_TRANSFER_BUFFER == 45
STANDARD_BUFFER == 15

Digits == <<"0", "1", "2", "3", "4", "5", "6", "7", "8", "9">>
IsDigit(c) == \E d \in 1..10 : Digits[d] = c
DigitValue(c) == (CHOOSE d \in 1..10 : Digits[d] = c) - 1

\* departureTime.split(':')[0]
BeforeColon(text) ==
    IF \E i \in 1..Len(text) : text[i] = ":"
    THEN SubSeq(text, 1, (CHOOSE i \in 1..Len(text) : text[i] = ":" /\ \A j \in 1..(i - 1) : text[j] # ":") - 1)
    ELSE text

\* parseInt of a text of characters: its leading digits, or NaN (undefined here)
parseInt(text) ==
    LET n == IF \E i \in 1..Len(text) : ~IsDigit(text[i])
             THEN (CHOOSE i \in 1..Len(text) : ~IsDigit(text[i]) /\ \A j \in 1..(i - 1) : IsDigit(text[j])) - 1
             ELSE Len(text)
        V[i \in 0..n] == IF i = 0 THEN 0 ELSE 10 * V[i - 1] + DigitValue(text[i])
    IN  IF n = 0 THEN Undefined ELSE Some(V[n])

\* a variant that counts a departure in the seven o'clock hour as early
isEarlyDepartureThroughSeven(departureTime) == Lt(parseInt(BeforeColon(departureTime)), 8)
\* parseInt(departureTime.split(':')[0]) < 7 ; NaN < 7 is false
isEarlyDeparture(departureTime) == Lt(parseInt(BeforeColon(departureTime)), 7)

\* a text is truthy when it is defined and not the empty string
TruthyText(o) == IsDefined(o) /\ Val(o) # <<>>

TransportCollectSignals(ctx) ==
    [currentLocation        |-> Get(ctx, "currentLocation"),
     nextDestination        |-> Get(ctx, "nextDestination"),
     transportType          |-> Get(ctx, "transportType"),
     departureTime          |-> Get(ctx, "departureTime"),
     arrivalTime            |-> Get(ctx, "arrivalTime"),
     luggageCount           |-> Get(ctx, "luggageCount"),
     mobilityConsiderations |-> Get(ctx, "mobilityConsiderations"),
     plannedSegmentsCount   |-> IF IsDefined(Get(ctx, "plannedSegments"))
                                THEN Len(Val(ctx.plannedSegments)) ELSE 0]

internationalCountries ==
    << <<"v", "i", "e", "t", "n", "a", "m">>, <<"j", "a", "p", "a", "n">>, <<"k", "o", "r", "e", "a">> >>

\* international.find(c => place.includes(c))
CountryOf(place) ==
    LET In(c) == Includes(place, c)
    IN  Find(internationalCountries, In)

isInternationalFlight(ctx) ==
    LET current == toLowerCase(Val(ctx.currentLocation))
        next == IF IsDefined(Get(ctx, "nextDestination")) THEN toLowerCase(Val(ctx.nextDestination)) ELSE <<>>
    IN  CountryOf(current) # CountryOf(next)

isGolfCourseTransfer(ctx) ==
    /\ IsDefined(Get(ctx, "nextDestination"))
    /\ \/ Includes(toLowerCase(Val(ctx.nextDestination)), <<"g", "o", "l", "f">>)
       \/ Includes(toLowerCase(Val(ctx.nextDestination)), <<"c", "o", "u", "r", "s", "e">>)

\* a variant that reports an insufficient buffer whenever more than the standard one is required
assessBuffersTimed(ctx) ==
    IF ~TruthyText(Get(ctx, "transportType")) \/ ~TruthyText(Get(ctx, "departureTime"))
    THEN [insufficient |-> FALSE, requiredBuffer |-> 0, details |-> <<"No transport scheduled">>]
    ELSE LET type == Val(ctx.transportType)
             requiredBuffer ==
                 IF type = <<"flight">>
                 THEN (IF isInternationalFlight(ctx) THEN AIRPORT_BUFFER ELSE DOMESTIC_AIRPORT_BUFFER)
                 ELSE IF type = <<"private_car">> /\ isGolfCourseTransfer(ctx)
                 THEN COURSE_TRANSFER_BUFFER
                 ELSE STANDARD_BUFFER
         IN  [insufficient   |-> requiredBuffer > STANDARD_BUFFER,
              requiredBuffer |-> requiredBuffer,
              details        |-> <<"Requires", ToString(requiredBuffer), "minute", "buffer", "for">> \o type]

\* the buffer check never reports an insufficient buffer
assessBuffers(ctx) ==
    IF ~TruthyText(Get(ctx, "transportType")) \/ ~TruthyText(Get(ctx, "departureTime"))
    THEN [insufficient |-> FALSE, requiredBuffer |-> 0, details |-> <<"No transport scheduled">>]
    ELSE LET type == Val(ctx.transportType)
             requiredBuffer ==
                 IF type = <<"flight">>
                 THEN (IF isInternationalFlight(ctx) THEN AIRPORT_BUFFER ELSE DOMESTIC_AIRPORT_BUFFER)
                 ELSE IF type = <<"private_car">> /\ isGolfCourseTransfer(ctx)
                 THEN COURSE_TRANSFER_BUFFER
                 ELSE STANDARD_BUFFER
         IN  [insufficient   |-> FALSE,
              requiredBuffer |-> requiredBuffer,
              details        |-> <<"Requires", ToString(requiredBuffer), "minute", "buffer", "for">> \o type]

recommendBufferIncrease(assessment, signals) ==
    createRecommendation(
        <<"Insufficient", "transport", "buffer">>,
        assessment.details \o <<".", "Reliability requires adequate buffer time.">>,
        signals,
        << <<"Increase", "buffer", "to", ToString(assessment.requiredBuffer), "minutes">>,
           <<"Adjust preceding activities if needed">>,
           <<"Confirm departure time allows for buffer">> >>
        \o (IF TruthyNum(signals.luggageCount) /\ Gt(signals.luggageCount, 2)
            THEN << <<"Consider porter assistance due to luggage count">> >> ELSE <<>>)
        \o (IF IsDefined(signals.mobilityConsiderations) /\ Len(Val(signals.mobilityConsiderations)) > 0
            THEN << <<"Request wheelchair or mobility assistance in advance">> >> ELSE <<>>),
        [approvalRequired |-> TRUE, priority |-> "high"])

identifyRisks(ctx) ==
    LET luggage == Get(ctx, "luggageCount")
        mobility == Get(ctx, "mobilityConsiderations")
        segments == Get(ctx, "plannedSegments")
        departure == Get(ctx, "departureTime")
    IN     (IF TruthyNum(luggage) /\ Gt(luggage, 3)
            THEN << <<"Heavy", "luggage", "count", "may", "slow", "movement">> >> ELSE <<>>)
        \o (IF IsDefined(mobility) /\ Len(Val(mobility)) > 0
            THEN << <<"Mobility", "considerations:">> \o Join(Val(mobility), <<",">>) >> ELSE <<>>)
        \o (IF IsDefined(segments) /\ Len(Val(segments)) > 2
            THEN << <<"Multiple", "transport", "segments", "increase", "fatigue", "and", "delay", "risk">> >>
            ELSE <<>>)
        \o (IF TruthyText(departure) /\ isEarlyDeparture(Val(departure))
            THEN << <<"Early", "departure", "may", "impact", "sleep", "quality">> >> ELSE <<>>)

recommendRiskMitigation(risks, signals, ctx) ==
    LET Bullet(r) == <<"-">> \o r
        Some_(part) == \E i \in 1..Len(risks) : Includes(risks[i], part)
        actions ==
            << <<"Risk factors identified:">> >>
            \o Map(risks, Bullet)
            \o << <<>>, <<"Recommended mitigations:">> >>
            \o (IF Some_(<<"luggage">>)
                THEN << <<"- Arrange porter or luggage assistance">>,
                        <<"- Consider shipping some items ahead">> >> ELSE <<>>)
            \o (IF Some_(<<"mobility">>)
                THEN << <<"- Pre-book wheelchair or mobility assistance">>,
                        <<"- Request priority boarding">>,
                        <<"- Allocate extra time for boarding">> >> ELSE <<>>)
            \o (IF Some_(<<"segments">>)
                THEN << <<"- Build in rest periods between segments">>,
                        <<"- Consider overnight stay to break up journey">> >> ELSE <<>>)
            \o (IF Some_(<<"Early", "departure">>)
                THEN << <<"- Ensure 8-hour sleep window before departure">>,
                        <<"- Prepare luggage night before">>,
                        <<"- Arrange express checkout">> >> ELSE <<>>)
    IN  createRecommendation(
            <<"Transport", "risk", "factors", "detected">>,
            <<ToString(Len(risks)), "risk", "factors", "identified", "for", "transport", "on">>
              \o Get(ctx, "date") \o <<".", "Proactive mitigation recommended.">>,
            signals, actions,
            [approvalRequired |-> FALSE, priority |-> "medium"])

TextOf(o) == IF IsDefined(o) THEN Val(o) ELSE <<"undefined">>

confirmTransportPlan(signals, ctx) ==
    createRecommendation(
        <<"Transport", "plan", "confirmed">>,
        <<"All transport logistics reviewed. Plan is reliable and low-stress.">>,
        signals,
        << <<"Transport:">> \o TextOf(Get(ctx, "currentLocation")) \o <<"->">> \o TextOf(Get(ctx, "nextDestination")),
           <<"Type:">> \o TextOf(Get(ctx, "transportType")) >>
        \o (IF TruthyText(Get(ctx, "departureTime"))
            THEN << <<"Departure:">> \o Val(ctx.departureTime) >> ELSE <<>>)
        \o (IF TruthyText(Get(ctx, "arrivalTime"))
            THEN << <<"Arrival:">> \o Val(ctx.arrivalTime) >> ELSE <<>>)
        \o << <<>>, <<"Transport plan approved - adequate buffers and low risk">> >>,
        [approvalRequired |-> FALSE, priority |-> "low"])

\* TransportLogisticsAgent.analyze after validateContext, as a settled promise
TransportDecide(ctx) ==
    LET signals == TransportCollectSignals(ctx)
        flightCheck == /\ TruthyText(Get(ctx, "transportType"))
                       /\ TruthyText(Get(ctx, "departureTime"))
                       /\ Val(ctx.transportType) = <<"flight">>
    IN  IF ~TruthyText(Get(ctx, "nextDestination"))
        THEN Fulfilled(createRecommendation(
                <<"No", "transport", "scheduled">>,
                <<"No transport requirements for this day.">>,
                signals, <<>>, [priority |-> "low"]))
        ELSE IF flightCheck /\ ~IsDefined(ctx.currentLocation)
        THEN Rejected(TypeError("toLowerCase"))
        ELSE IF assessBuffers(ctx).insufficient
        THEN Fulfilled(recommendBufferIncrease(assessBuffers(ctx), signals))
        ELSE IF Len(identifyRisks(ctx)) > 0
        THEN Fulfilled(recommendRiskMitigation(identifyRisks(ctx), signals, ctx))
        ELSE Fulfilled(confirmTransportPlan(signals, ctx))

---------------------------------------------------------------------------
(* The specialists behind the shared contract *)

Specialists == <<"health", "golf", "budget", "transport">>

\* the decision rules of a specialist, entered once validateContext has passed
Decide(a, ctx) ==
    CASE a = "health"    -> Fulfilled(HealthDecide(ctx))
      [] a = "golf"      -> GolfDecide(ctx)
      [] a = "budget"    -> BudgetDecide(ctx)
      [] a = "transport" -> TransportDecide(ctx)

\* agent.analyze(ctx) of a specialist, run to completion: validateContext, then the rules
AgentAnalyze(a, ctx) ==
    LET missing == MissingFields(ctx, RequiredFields(a))
    IN  IF Len(missing) > 0 THEN Rejected(MissingContextError(a, missing)) ELSE Decide(a, ctx)

---------------------------------------------------------------------------
(* TravelExperienceAgent *)

calculateConsecutiveActiveDays(ctx) ==
    IF Get(Val(ctx.currentItinerary), "primaryIntent") = Some("recovery") THEN 0 ELSE 1

calculateConsecutiveGolfDays(ctx) == 0

\* [morning?.activity, afternoon?.activity].filter(Boolean); undefined when none is left
extractPlannedActivity(itinerary) ==
    LET schedule == Val(itinerary.schedule)
        morning == Get(schedule, "morning")
        afternoon == Get(schedule, "afternoon")
        hasGolf == Get(itinerary, "primaryIntent") = Some("golf")
        hasCulture == Get(itinerary, "primaryIntent") = Some("culture")
    IN  IF ~TruthyText(morning) /\ ~TruthyText(afternoon) THEN Undefined
        ELSE Some([type           |-> Get(itinerary, "primaryIntent"),
                   physicalLoad   |-> Some(IF hasGolf THEN "high" ELSE IF hasCulture THEN "medium" ELSE "low"),
                   estimatedSteps |-> Some(IF hasGolf THEN 10000 ELSE IF hasCulture THEN 6000 ELSE 3000)])

\* a variant that reports an actual spend, twice the planned amount
buildCategorySpendWithActuals(trip) ==
    LET categories == Val(Val(trip.budget).categories)
        Spend(entry) == [category |-> entry.category, planned |-> entry.planned,
                         actual |-> 2 * entry.planned]
    IN  Map(categories, Spend)
\* Object.entries(trip.budget.categories) with planned || 0 and actual: 0
buildCategorySpend(trip) ==
    LET categories == Val(Val(trip.budget).categories)
        Spend(entry) == [category |-> entry.category, planned |-> entry.planned, actual |-> 0]
    IN  Map(categories, Spend)

Built(ctx) == [ok |-> TRUE, ctx |-> <<ctx>>, err |-> <<>>]
Threw(err) == [ok |-> FALSE, ctx |-> <<>>, err |-> <<err>>]

\* the sub-context each get*Recommendation derives, or the error its construction throws
SubContext(a, ctx) ==
    LET itinerary == Val(ctx.currentItinerary)
        feedback == Get(ctx, "travelerFeedback")
        Feedback(k) == IF IsDefined(feedback) THEN Get(Val(feedback), k) ELSE Undefined
    IN  CASE a = "health" ->
                IF ~IsDefined(Get(itinerary, "schedule")) THEN Threw(TypeError("morning"))
                ELSE Built(Spread(ctx,
                        [sleepQuality          |-> Feedback("sleepQuality"),
                         energyRating          |-> Feedback("energyRating"),
                         consecutiveActiveDays |-> Some(calculateConsecutiveActiveDays(ctx)),
                         wellnessProfile       |-> Get(ctx, "wellnessProfile"),
                         plannedActivity       |-> extractPlannedActivity(itinerary)]))
          [] a = "golf" ->
                Built(Spread(ctx,
                        [location            |-> Get(itinerary, "location"),
                         energyLevel         |-> Feedback("energyRating"),
                         weatherForecast     |-> Get(ctx, "weather"),
                         consecutiveGolfDays |-> Some(calculateConsecutiveGolfDays(ctx)),
                         availableCourses    |-> Some(<<>>)]))
          [] a = "budget" ->
                IF ~IsDefined(ctx.trip) THEN Threw(TypeError("budget"))
                ELSE IF ~IsDefined(Get(Val(ctx.trip), "budget")) THEN Threw(TypeError("categories"))
                ELSE IF ~IsDefined(Get(Val(Val(ctx.trip).budget), "categories"))
                THEN Threw(TypeError("Object.entries"))
                ELSE Built(Spread(ctx,
                        [trip          |-> ctx.trip,
                         categorySpend |-> Some(buildCategorySpend(Val(ctx.trip)))]))
          [] a = "transport" ->
                Built(Spread(ctx, [currentLocation |-> Get(itinerary, "location")]))

buildNominalSummary(ctx, recommendations) ==
    LET itinerary == Val(ctx.currentItinerary)
        feedback == Get(ctx, "travelerFeedback")
        energy == IF IsDefined(feedback) THEN Get(Val(feedback), "energyRating") ELSE Undefined
        intent == Get(itinerary, "primaryIntent")
        parts ==
            << <<"Day", "proceeding", "as", "planned", "in">> \o TextOf(Get(itinerary, "location")) \o <<".">>,
               <<"Primary", "focus:", IF IsDefined(intent) THEN Val(intent) ELSE "undefined", ".">> >>
            \o (IF TruthyNum(energy) THEN << <<"Energy", "level:", Str(energy), "/5.">> >> ELSE <<>>)
            \o << <<"All", "systems", "green.">> >>
    IN  Join(parts, <<" ">>)

\* the conditions of the if-chain, in order: the first that holds selects the rung
CoordinationRungCriticalOnly(recommendations) ==
    IF recommendations.health.priority = "critical" THEN "health"
    ELSE IF recommendations.transport.priority = "critical" \/ recommendations.transport.priority = "high"
    THEN "transport"
    ELSE IF recommendations.budget.priority = "critical" THEN "budget"
    ELSE IF recommendations.golf.approvalRequired THEN "golf"
    ELSE "nominal"
CoordinationRungBudgetFirst(recommendations) ==
    IF recommendations.health.priority = "critical" \/ recommendations.health.priority = "high"
    THEN "health"
    ELSE IF recommendations.budget.priority = "critical" THEN "budget"
    ELSE IF recommendations.transport.priority = "critical" \/ recommendations.transport.priority = "high"
    THEN "transport"
    ELSE IF recommendations.golf.approvalRequired THEN "golf"
    ELSE "nominal"
CoordinationRung(recommendations) ==
    IF recommendations.health.priority = "critical" \/ recommendations.health.priority = "high"
    THEN "health"
    ELSE IF recommendations.transport.priority = "critical" \/ recommendations.transport.priority = "high"
    THEN "transport"
    ELSE IF recommendations.budget.priority = "critical" THEN "budget"
    ELSE IF recommendations.golf.approvalRequired THEN "golf"
    ELSE "nominal"

\* a variant that drops the empty strings of Health's actions
HealthOverrideActionsNoBlanks(health) ==
    LET NotBlank(action) == action # <<>>
    IN  Filter(health.outputActions, NotBlank)
        \o << <<>>, <<"Other agent recommendations deferred to prioritize well-being.">> >>
\* [...health.outputActions, '', 'Other agent recommendations deferred to prioritize well-being.']
HealthOverrideActions(health) ==
    health.outputActions
      \o << <<>>, <<"Other agent recommendations deferred to prioritize well-being.">> >>

applyCoordinationRules(recommendations, ctx) ==
    LET health == recommendations.health
        golf == recommendations.golf
        budget == recommendations.budget
        transport == recommendations.transport
        rung == CoordinationRung(recommendations)
    IN  CASE rung = "health" ->
            createRecommendation(
                <<"Health", "priority", "override">>,
                <<"Health & recovery agent recommends intervention.", "Health", "rationale:">>
                  \o health.rationale,
                [healthRecommendation |-> health,
                 otherRecommendations |-> [golf |-> golf, budget |-> budget, transport |-> transport]],
                HealthOverrideActions(health),
                [approvalRequired |-> health.approvalRequired, priority |-> health.priority])
          [] rung = "transport" ->
            createRecommendation(
                <<"Logistics", "priority", "override">>,
                <<"Transport logistics require adjustment.", "Transport", "rationale:">>
                  \o transport.rationale,
                [transportRecommendation |-> transport, healthRecommendation |-> health],
                transport.outputActions
                  \o << <<>>, <<"Schedule adjusted to ensure reliable transport.">> >>,
                [approvalRequired |-> transport.approvalRequired, priority |-> transport.priority])
          [] rung = "budget" ->
            createRecommendation(
                <<"Budget", "control", "intervention">>,
                <<"Critical budget variance detected.", "Budget", "rationale:">> \o budget.rationale,
                [budgetRecommendation |-> budget, healthStatus |-> health],
                budget.outputActions
                  \o << <<>>, <<"Spending adjustments required before proceeding.">> >>,
                [approvalRequired |-> TRUE, priority |-> "critical"])
          [] rung = "golf" ->
            createRecommendation(
                <<"Golf", "activity", "adjustment", "recommended">>,
                golf.rationale,
                [golfRecommendation |-> golf, healthStatus |-> health],
                golf.outputActions,
                [approvalRequired |-> TRUE, priority |-> golf.priority])
          [] rung = "nominal" ->
            createRecommendation(
                <<"Proceed", "with", "planned", "itinerary">>,
                buildNominalSummary(ctx, recommendations),
                [allRecommendations |-> recommendations],
                << <<"All agent assessments favorable">>,
                   <<"Health:">> \o health.decision,
                   <<"Transport:">> \o transport.decision,
                   <<"Budget:">> \o budget.decision,
                   <<"Golf:">> \o golf.decision >>,
                [approvalRequired |-> FALSE, priority |-> "low"])

---------------------------------------------------------------------------
(* The contexts analyze() is called with *)

MaxActiveDays == 5
MaxGolfDays == 2
MaxSegments == 3
MaxRuns == 2

Base == [tripId |-> <<"trip-1">>, userId |-> <<"user-1">>, date |-> <<"2026-02-20">>]

\* an optional key: left out of the object when the value is undefined
Opt(k, o) == IF IsDefined(o) THEN Field(k, o) ELSE EmptyObject

OptRating == {Undefined} \cup {Some(r) : r \in 1..5}

PlannedActivities ==
    {Undefined} \cup
    {Some([type |-> Some(t), physicalLoad |-> Some(l), estimatedSteps |-> st]) :
        t \in {"golf", "cultural"}, l \in {"low", "medium", "high"},
        st \in {Undefined, Some(6000), Some(10000)}}

WellnessProfiles ==
    {Undefined, Some([stepsTarget |-> Some(5000), mobilityLevel |-> Some("moderate")])}

HealthContexts ==
    {Spread(Base, Spread(Opt("sleepQuality", sq), Spread(Opt("energyRating", er),
        Spread(Field("consecutiveActiveDays", Some(days)),
        Spread(Opt("plannedActivity", pa), Opt("wellnessProfile", wp)))))) :
        sq \in OptRating, er \in OptRating, days \in 0..MaxActiveDays,
        pa \in PlannedActivities, wp \in WellnessProfiles}

LocDaNang == <<"D", "a", " ", "N", "a", "n", "g", ",", " ", "V", "i", "e", "t", "n", "a", "m">>
LocHanoi == <<"H", "A", "N", "O", "I">>
LocHoiAn == <<"H", "o", "i", " ", "A", "n">>
LocSaigon == <<"H", "o", " ", "C", "h", "i", " ", "M", "i", "n", "h", " ", "C", "i", "t", "y", " ", "(", "S", "a", "i", "g", "o", "n", ")">>
LocTokyo == <<"T", "o", "k", "y", "o", ",", " ", "J", "a", "p", "a", "n">>
LocDanang == <<"D", "a", "n", "a", "n", "g">>
LocHaNoi == <<"H", "a", " ", "N", "o", "i", ",", " ", "V", "i", "e", "t", "n", "a", "m">>
LocBaNaGolf == <<"B", "a", " ", "N", "a", " ", "H", "i", "l", "l", "s", " ", "G", "o", "l", "f", " ", "C", "l", "u", "b">>

Locations == {LocDaNang, LocHanoi, LocHoiAn, LocSaigon, LocTokyo, LocDanang, LocHaNoi, <<>>}

BaNaHills == [name |-> <<"Ba", "Na", "Hills", "Golf", "Club">>, travelTime |-> 45,
              difficulty |-> "challenging", climate |-> "mountain"]
Montgomerie == [name |-> <<"Montgomerie", "Links", "Vietnam">>, travelTime |-> 25,
                difficulty |-> "moderate", climate |-> "hot"]
LagunaLangCo == [name |-> <<"Laguna", "Lang", "Co">>, travelTime |-> 60,
                 difficulty |-> "moderate", climate |-> "cool"]
BRGDaNang == [name |-> <<"BRG", "Da", "Nang", "Golf", "Resort">>, travelTime |-> 20,
              difficulty |-> "easy", climate |-> "hot"]
HoianaShores == [name |-> <<"Hoiana", "Shores">>, travelTime |-> 20,
                 difficulty |-> "moderate", climate |-> "hot"]

CourseLists ==
    {Undefined, Some(<<>>), Some(<<LagunaLangCo, BaNaHills>>), Some(<<LagunaLangCo, BRGDaNang>>),
     Some(<<Montgomerie, BaNaHills>>), Some(<<LagunaLangCo, BRGDaNang, HoianaShores>>)}

Forecasts ==
    {Undefined} \cup
    {Some([condition |-> "any", temperature |-> t, humidity |-> h, rainfall |-> r]) :
        t \in {30, 34, 36}, h \in {78, 85}, r \in {Undefined, Some(15)}}

GolfContexts ==
    {Spread(Base, Spread(Field("location", Some(loc)), Spread(Opt("energyLevel", el),
        Spread(Opt("consecutiveGolfDays", gd),
        Spread(Opt("weatherForecast", w), Opt("availableCourses", cs)))))) :
        loc \in Locations, el \in OptRating,
        gd \in {Undefined} \cup {Some(n) : n \in 0..MaxGolfDays},
        w \in Forecasts, cs \in CourseLists}

SpendAmounts == {[planned |-> p, actual |-> a] : p \in {0, 100}, a \in {0, 50, 100, 110, 111, 120, 121}}

CategorySpends ==
    {<<[category |-> "golf", planned |-> g.planned, actual |-> g.actual],
       [category |-> "dining", planned |-> d.planned, actual |-> d.actual]>> :
        g \in SpendAmounts, d \in SpendAmounts}

Trip == [budget |-> Some([total |-> 200, spent |-> 120,
                          categories |-> Some(<<[category |-> "golf", planned |-> 100],
                                                [category |-> "dining", planned |-> 0]>>)])]

PrepaidLists ==
    {Undefined, Some(<<>>), Some(<<[category |-> "golf", amount |-> 80, item |-> "green fee"]>>)}

BudgetContexts ==
    {Spread(Base, Spread([trip |-> Some(Trip), categorySpend |-> Some(cs)], Opt("unusedPrepaid", up))) :
        cs \in CategorySpends, up \in PrepaidLists}
    \cup {Spread(Base, [trip |-> Some(Trip),
                        categorySpend |-> Some(<<[category |-> "golf", planned |-> 5000,
                                                  actual |-> 6200]>>)]),
          Spread(Base, [trip |-> Some(Trip),
                        categorySpend |-> Some(<<[category |-> "golf", planned |-> 100,
                                                  actual |-> 115],
                                                 [category |-> "dining", planned |-> 100,
                                                  actual |-> 95]>>)]),
          Spread(Base, [trip |-> Some(Trip),
                        categorySpend |-> Some(<<[category |-> "golf", planned |-> 100,
                                                  actual |-> 115],
                                                 [category |-> "dining", planned |-> 100,
                                                  actual |-> 115],
                                                 [category |-> "spa", planned |-> 100,
                                                  actual |-> 80]>>)]),
          Spread(Base, [trip |-> Some(EmptyObject), categorySpend |-> Some(<<>>)]),
          Spread(Base, [trip |-> Undefined, categorySpend |-> Some(<<>>)]),
          Spread(Base, [trip |-> Some(Trip), categorySpend |-> Undefined])}

Segment == [type |-> "private_car"]

TransportContexts ==
    {Spread(Base, Spread(Field("currentLocation", cur), Spread(Opt("nextDestination", nxt),
        Spread(Opt("transportType", ty), Spread(Opt("departureTime", dep),
        Spread(Opt("luggageCount", lug), Spread(Opt("mobilityConsiderations", mob),
        Opt("plannedSegments", seg)))))))) :
        cur \in {Some(LocDaNang), Undefined},
        nxt \in {Undefined, Some(<<>>), Some(LocTokyo), Some(LocBaNaGolf), Some(LocHoiAn)},
        ty \in {Undefined, Some(<<"flight">>), Some(<<"private_car">>)},
        dep \in {Undefined, Some(<<"0", "6", ":", "3", "0">>), Some(<<"0", "7", ":", "0", "0">>),
                 Some(<<"0", "9", ":", "0", "0">>)},
        lug \in {Undefined, Some(3), Some(4)},
        mob \in {Undefined, Some(<<>>), Some(<< <<"knee", "injury">> >>),
                 Some(<< <<"limited", "mobility">> >>)},
        seg \in {Undefined} \cup {Some([i \in 1..n |-> Segment]) : n \in 1..MaxSegments}}

Feedbacks ==
    {Undefined} \cup
    {Some([sleepQuality |-> sq, energyRating |-> er]) :
        sq \in {Some(2), Some(4)}, er \in {Undefined, Some(3), Some(5)}}

Itineraries ==
    {Undefined} \cup
    {Some([location |-> loc, primaryIntent |-> Some(intent), schedule |-> sch]) :
        loc \in {Some(LocDaNang), Some(LocTokyo), Undefined},
        intent \in {"golf", "culture", "recovery"},
        sch \in {Undefined,
                 Some(EmptyObject),
                 Some([morning |-> Some(<<"activity">>)])}}

\* what a caller may add to the open-ended context: a transfer for the Transport agent
Transfers ==
    {EmptyObject,
     [nextDestination |-> Some(LocTokyo), transportType |-> Some(<<"flight">>),
      departureTime |-> Some(<<"0", "6", ":", "3", "0">>)]}

TravelExperienceContexts ==
    {Spread(Base, Spread([trip |-> Some(trip), currentItinerary |-> it],
        Spread(Opt("travelerFeedback", fb), Spread(Opt("weather", w),
        Spread(Opt("wellnessProfile", wp), tr))))) :
        trip \in {Trip, EmptyObject}, it \in Itineraries, fb \in Feedbacks,
        w \in {Undefined,
               Some([condition |-> "any", temperature |-> 36, humidity |-> 85, rainfall |-> Undefined])},
        wp \in WellnessProfiles, tr \in Transfers}

FullContexts(a) ==
    CASE a = "health"    -> HealthContexts
      [] a = "golf"      -> GolfContexts
      [] a = "budget"    -> BudgetContexts
      [] a = "transport" -> TransportContexts
      [] a = "txa"       -> TravelExperienceContexts

Agents == {"health", "golf", "budget", "transport", "txa"}

RequiredSet(a) == {RequiredFields(a)[i] : i \in 1..Len(RequiredFields(a))}

\* one complete context per agent, from which required fields are left out
SampleContext(a) ==
    CASE a = "health"    -> Spread(Base, [sleepQuality |-> Some(2), energyRating |-> Some(2),
                                          consecutiveActiveDays |-> Some(5)])
      [] a = "golf"      -> Spread(Base, [location |-> Some(LocDaNang), consecutiveGolfDays |-> Some(2),
                                          availableCourses |-> Some(<<BaNaHills>>)])
      [] a = "budget"    -> Spread(Base, [trip |-> Some(Trip),
                                          categorySpend |-> Some(<<[category |-> "golf", planned |-> 100,
                                                                    actual |-> 130]>>)])
      [] a = "transport" -> Spread(Base, [currentLocation |-> Some(LocDaNang),
                                          nextDestination |-> Some(LocTokyo), luggageCount |-> Some(4)])
      [] a = "txa"       -> Spread(Base, [trip |-> Some(Trip),
                                          currentItinerary |-> Some([location |-> Some(LocDaNang),
                                              primaryIntent |-> Some("golf"),
                                              schedule |-> Some([morning |-> Some(<<"activity">>)])]),
                                          travelerFeedback |-> Some([sleepQuality |-> Some(2),
                                                                     energyRating |-> Some(3)])])

IncompleteContexts(a) ==
    {Without(SampleContext(a), m) : m \in (SUBSET RequiredSet(a)) \ {{}}}

\* the arguments of a health_recovery_analysis tool call: any of them may be left out
HealthToolArguments ==
    {Spread([userId |-> <<"user-1">>, date |-> <<"2026-02-20">>],
        Spread(Opt("tripId", id), Spread(Opt("consecutiveActiveDays", days),
        Spread(Opt("sleepQuality", sq), Spread(Opt("energyRating", er), Opt("plannedActivity", pa)))))) :
        id \in {Undefined, Some(<<"trip-1">>)},
        days \in {Undefined, Some(1), Some(MaxActiveDays)},
        sq \in {Undefined, Some(2), Some(4)},
        er \in {Undefined, Some(3)},
        pa \in {Undefined, Some([type |-> Some("golf"), physicalLoad |-> Some("high"),
                                 estimatedSteps |-> Some(10000)])}}

\* the context object the tool handler builds: every key is written, with the
\* value undefined when the argument was left out
handleHealthRecoveryAnalysis(args) ==
    [tripId                |-> IF IsDefined(Get(args, "tripId")) THEN Val(args.tripId) ELSE <<"temp">>,
     userId                |-> args.userId,
     date                  |-> args.date,
     sleepQuality          |-> Get(args, "sleepQuality"),
     energyRating          |-> Get(args, "energyRating"),
     consecutiveActiveDays |-> Get(args, "consecutiveActiveDays"),
     plannedActivity       |-> Get(args, "plannedActivity"),
     wellnessProfile       |-> Get(args, "wellnessProfile"),
     environmentalStress   |-> Get(args, "environmentalStress")]

\* contexts given by a direct caller, and those the tool handler passes on
Contexts(a) ==
    FullContexts(a) \cup IncompleteContexts(a)
    \cup (IF a = "health"
          THEN {handleHealthRecoveryAnalysis(args) : args \in HealthToolArguments}
          ELSE {})

---------------------------------------------------------------------------
(* analyze() as a process *)

SpecialistSet == {Specialists[i] : i \in 1..Len(Specialists)}

NoPromise == [state |-> "none", value |-> <<>>, reason |-> <<>>]
NotJoined == [state |-> "none", remaining |-> 0, reason |-> <<>>,
              values |-> [a \in SpecialistSet |-> <<>>]]

Init ==
    /\ agent \in Agents
    /\ context \in Contexts(agent)
    /\ pc = "validate"
    /\ result = <<>>
    /\ error = <<>>
    /\ inner = [a \in SpecialistSet |-> NoPromise]
    /\ wrapper = [a \in SpecialistSet |-> NoPromise]
    /\ queue = <<>>
    /\ joined = NotJoined
    /\ recs = <<>>
    /\ final = <<>>
    /\ run = 1
    /\ firstRun = <<>>
    /\ clock = 0
    /\ slowLuxuryClient = <<>>
    /\ other = <<>>

\* this.validateContext(context, [...]) at the top of every analyze()
Validate ==
    /\ pc = "validate"
    /\ LET missing == MissingFields(context, RequiredFields(agent))
       IN  IF Len(missing) > 0
           THEN /\ error' = <<MissingContextError(agent, missing)>>
                /\ pc' = "done"
           ELSE /\ error' = error
                /\ pc' = IF agent = "txa" THEN "log" ELSE "decide"
    /\ UNCHANGED <<slowLuxuryClient, agent, context, result, inner, wrapper, queue, joined, recs, final, run, firstRun, other>>
    /\ clock' = clock + 1

\* a specialist called directly: its decision rules
DecideStep ==
    /\ pc = "decide"
    /\ LET out == Decide(agent, context)
       IN  /\ result' = out.value
           /\ error' = out.reason
    /\ pc' = "done"
    /\ UNCHANGED <<slowLuxuryClient, agent, context, inner, wrapper, queue, joined, recs, final, run, firstRun, other>>
    /\ clock' = clock + 1

\* TXA: the log line reads context.currentItinerary.location
LogStart ==
    /\ pc = "log"
    /\ IF ~IsDefined(context.currentItinerary)
       THEN error' = <<TypeError("location")>> /\ pc' = "done"
       ELSE error' = error /\ pc' = "fanout"
    /\ UNCHANGED <<slowLuxuryClient, agent, context, result, inner, wrapper, queue, joined, recs, final, run, firstRun, other>>
    /\ clock' = clock + 1

\* the next element of the array literal given to Promise.all
NextToCall ==
    Specialists[CHOOSE i \in 1..Len(Specialists) :
        /\ wrapper[Specialists[i]].state = "none"
        /\ \A j \in 1..(i - 1) : wrapper[Specialists[j]].state # "none"]

\* the array literal goes on to its next element whatever the call returned:
\* an async function never throws to its caller
FanOutNextStopOnThrow(a, w) ==
    IF w.state = "rejected" \/ a = Specialists[Len(Specialists)] THEN "join" ELSE "fanout"
FanOutNext(a, w) ==
    IF a = Specialists[Len(Specialists)] THEN "join" ELSE "fanout"

\* TXA: this.get<Agent>Recommendation(context), up to its await
CallSpecialist ==
    /\ pc = "fanout"
    /\ LET a == NextToCall
           sub == SubContext(a, context)
           w == IF sub.ok THEN Pending ELSE Rejected(sub.err[1])
       IN  /\ inner' = IF sub.ok THEN [inner EXCEPT ![a] = AgentAnalyze(a, sub.ctx[1])] ELSE inner
           /\ wrapper' = [wrapper EXCEPT ![a] = w]
           /\ queue' = IF sub.ok THEN Append(queue, [kind |-> "resume", agent |-> a]) ELSE queue
           /\ pc' = FanOutNext(a, w)
    /\ UNCHANGED <<slowLuxuryClient, agent, context, result, error, joined, recs, final, run, firstRun, other>>
    /\ clock' = clock + 1

\* TXA: await Promise.all([...]) subscribes to the four promises
AwaitAll ==
    /\ pc = "join"
    /\ LET IsRejected(a) == wrapper[a].state = "rejected"
           Reaction(a) == [kind |-> "reaction", agent |-> a]
       IN  queue' = queue \o Map(Filter(Specialists, IsRejected), Reaction)
    /\ joined' = [NotJoined EXCEPT !.state = "pending", !.remaining = Len(Specialists)]
    /\ pc' = "await"
    /\ UNCHANGED <<slowLuxuryClient, agent, context, result, error, inner, wrapper, recs, final, run, firstRun, other>>
    /\ clock' = clock + 1

\* try { return await agent.analyze(ctx) } catch (error) { log; throw error }
WrapperSettleSwallow(p) ==
    IF p.state = "rejected"
    THEN Fulfilled(createRecommendation(<<"Agent", "unavailable">>, <<>>, EmptyObject, <<>>, EmptyObject))
    ELSE p
WrapperSettle(p) == p

\* microtask: a get<Agent>Recommendation resumes after its await
ResumeWrapper ==
    /\ pc \in {"await", "done"}
    /\ queue # <<>>
    /\ Head(queue).kind = "resume"
    /\ LET a == Head(queue).agent
       IN  /\ wrapper' = [wrapper EXCEPT ![a] = WrapperSettle(inner[a])]
           /\ queue' = Append(Tail(queue), [kind |-> "reaction", agent |-> a])
    /\ UNCHANGED <<slowLuxuryClient, agent, context, pc, result, error, inner, joined, recs, final, run, firstRun, other>>
    /\ clock' = clock + 1

\* Promise.all: fulfilled when every element is, rejected with the first rejection
PromiseAllSettle(j, a, w) ==
    IF w.state = "fulfilled"
    THEN [j EXCEPT !.values[a] = w.value,
                   !.remaining = j.remaining - 1,
                   !.state = IF j.state = "pending" /\ j.remaining = 1 THEN "fulfilled" ELSE j.state]
    ELSE IF j.state = "pending"
    THEN [j EXCEPT !.state = "rejected", !.reason = w.reason]
    ELSE j

\* microtask: Promise.all's reaction to one element
AllReaction ==
    /\ pc \in {"await", "done"}
    /\ queue # <<>>
    /\ Head(queue).kind = "reaction"
    /\ LET a == Head(queue).agent
           j == PromiseAllSettle(joined, a, wrapper[a])
       IN  /\ joined' = j
           /\ queue' = IF joined.state = "pending" /\ j.state # "pending"
                       THEN Append(Tail(queue), [kind |-> "analyze", agent |-> "txa"])
                       ELSE Tail(queue)
    /\ UNCHANGED <<slowLuxuryClient, agent, context, pc, result, error, inner, wrapper, recs, final, run, firstRun, other>>
    /\ clock' = clock + 1

\* microtask: analyze() resumes after await Promise.all
ResumeAnalyze ==
    /\ pc = "await"
    /\ queue # <<>>
    /\ Head(queue).kind = "analyze"
    /\ queue' = Tail(queue)
    /\ pc' = "done"
    /\ IF joined.state = "fulfilled"
       THEN LET recommendations == [a \in SpecialistSet |-> joined.values[a][1]]
            IN  /\ recs' = <<recommendations>>
                /\ final' = <<applyCoordinationRules(recommendations, context)>>
                /\ result' = final'
                /\ error' = error
       ELSE /\ error' = joined.reason
            /\ UNCHANGED <<recs, final, result>>
    /\ UNCHANGED <<slowLuxuryClient, agent, context, inner, wrapper, joined, run, firstRun, other>>
    /\ clock' = clock + 1

Next ==
    \/ Validate
    \/ DecideStep
    \/ LogStart
    \/ CallSpecialist
    \/ AwaitAll
    \/ ResumeWrapper
    \/ AllReaction
    \/ ResumeAnalyze

Spec == Init /\ [][Next]_vars

---------------------------------------------------------------------------
(* analyze() called again on the same agent objects with the same context *)

\* the caller, once a call has settled and no microtask is left, calls again
AnalyzeAgain ==
    /\ pc = "done"
    /\ queue = <<>>
    /\ run < MaxRuns
    /\ run' = run + 1
    /\ firstRun' = IF run = 1 THEN <<[result |-> result, error |-> error]>> ELSE firstRun
    /\ pc' = "validate"
    /\ result' = <<>>
    /\ error' = <<>>
    /\ inner' = [a \in SpecialistSet |-> NoPromise]
    /\ wrapper' = [a \in SpecialistSet |-> NoPromise]
    /\ joined' = NotJoined
    /\ recs' = <<>>
    /\ final' = <<>>
    /\ clock' = clock + 1
    /\ UNCHANGED <<slowLuxuryClient, agent, context, queue, other>>

NextTwice ==
    \/ Next
    \/ AnalyzeAgain

SpecTwice == Init /\ [][NextTwice]_vars

---------------------------------------------------------------------------
(* two calls of analyze() in progress on the same agent object *)

\* one complete context per agent on which no rule fires
CalmContext(a) ==
    CASE a = "health"    -> Spread(Base, [sleepQuality |-> Some(4), energyRating |-> Some(5),
                                          consecutiveActiveDays |-> Some(0)])
      [] a = "golf"      -> Spread(Base, [location |-> Some(LocHoiAn), consecutiveGolfDays |-> Some(0),
                                          availableCourses |-> Some(<<LagunaLangCo, BRGDaNang>>)])
      [] a = "budget"    -> Spread(Base, [trip |-> Some(Trip),
                                          categorySpend |-> Some(<<[category |-> "golf", planned |-> 100,
                                                                    actual |-> 100]>>)])
      [] a = "transport" -> Spread(Base, [currentLocation |-> Some(LocHoiAn),
                                          nextDestination |-> Some(LocDaNang)])
      [] a = "txa"       -> Spread(Base, [trip |-> Some(Trip),
                                          currentItinerary |-> Some([location |-> Some(LocTokyo),
                                              primaryIntent |-> Some("culture"),
                                              schedule |-> Some(EmptyObject)]),
                                          travelerFeedback |-> Some([sleepQuality |-> Some(4),
                                                                     energyRating |-> Some(5)])])

\* the contexts of two concurrent requests
PairContexts(a) ==
    {SampleContext(a), CalmContext(a), Without(SampleContext(a), {"tripId"})}
    \cup (IF a = "txa"
          THEN {Spread(CalmContext(a), [currentItinerary |-> Some([location |-> Some(LocDaNang),
                                            primaryIntent |-> Some("golf"), schedule |-> Undefined])]),
                Spread(SampleContext(a), [currentItinerary |-> Some([location |-> Undefined,
                                            primaryIntent |-> Some("golf"),
                                            schedule |-> Some(EmptyObject)])]),
                Spread(SampleContext(a), [trip |-> Some(EmptyObject)])}
          ELSE {})

InitPair ==
    /\ agent \in Agents
    /\ context \in PairContexts(agent)
    /\ pc = "validate"
    /\ result = <<>>
    /\ error = <<>>
    /\ inner = [a \in SpecialistSet |-> NoPromise]
    /\ wrapper = [a \in SpecialistSet |-> NoPromise]
    /\ queue = <<>>
    /\ joined = NotJoined
    /\ recs = <<>>
    /\ final = <<>>
    /\ run = 1
    /\ firstRun = <<>>
    /\ clock = 0
    /\ slowLuxuryClient = <<>>
    /\ other = <<>>

\* a variant in which the context is kept once per agent object, by the first call
ContextOfFirst(k) == context
\* the context parameter of the k-th invocation: each invocation binds its own
ContextOf(k) == IF k = 1 THEN context ELSE other[1].context

\* the second call has returned its promise: it is suspended at an await or has settled
OtherSuspended == other = <<>> \/ other[1].pc \in {"await", "done"}

\* a second request arrives while the first call is suspended at its await, or after it settled
StartOther ==
    /\ run = 1
    /\ other = <<>>
    /\ pc \in {"await", "done"}
    /\ \E c \in PairContexts(agent) \ {context} :
          other' = <<[context |-> c, pc |-> "validate", result |-> <<>>, error |-> <<>>,
                      inner |-> [a \in SpecialistSet |-> NoPromise],
                      wrapper |-> [a \in SpecialistSet |-> NoPromise],
                      joined |-> NotJoined,
                      overlap |-> (pc = "await")]>>
    /\ clock' = clock + 1
    /\ UNCHANGED <<slowLuxuryClient, agent, context, pc, result, error, inner, wrapper, queue, joined, recs, final,
                   run, firstRun>>

ValidateOther ==
    /\ other # <<>>
    /\ other[1].pc = "validate"
    /\ LET missing == MissingFields(ContextOf(2), RequiredFields(agent))
       IN  other' = IF Len(missing) > 0
                    THEN <<[other[1] EXCEPT !.error = <<MissingContextError(agent, missing)>>,
                                            !.pc = "done"]>>
                    ELSE <<[other[1] EXCEPT !.pc = IF agent = "txa" THEN "log" ELSE "decide"]>>
    /\ clock' = clock + 1
    /\ UNCHANGED <<slowLuxuryClient, agent, context, pc, result, error, inner, wrapper, queue, joined, recs, final,
                   run, firstRun>>

DecideOther ==
    /\ other # <<>>
    /\ other[1].pc = "decide"
    /\ LET out == Decide(agent, ContextOf(2))
       IN  other' = <<[other[1] EXCEPT !.result = out.value, !.error = out.reason, !.pc = "done"]>>
    /\ clock' = clock + 1
    /\ UNCHANGED <<slowLuxuryClient, agent, context, pc, result, error, inner, wrapper, queue, joined, recs, final,
                   run, firstRun>>

LogOther ==
    /\ other # <<>>
    /\ other[1].pc = "log"
    /\ other' = IF ~IsDefined(ContextOf(2).currentItinerary)
                THEN <<[other[1] EXCEPT !.error = <<TypeError("location")>>, !.pc = "done"]>>
                ELSE <<[other[1] EXCEPT !.pc = "fanout"]>>
    /\ clock' = clock + 1
    /\ UNCHANGED <<slowLuxuryClient, agent, context, pc, result, error, inner, wrapper, queue, joined, recs, final,
                   run, firstRun>>

\* the sub-agent objects are the same ones the first call uses
CallSpecialistOther ==
    /\ other # <<>>
    /\ other[1].pc = "fanout"
    /\ LET a == Specialists[CHOOSE i \in 1..Len(Specialists) :
                    /\ other[1].wrapper[Specialists[i]].state = "none"
                    /\ \A j \in 1..(i - 1) : other[1].wrapper[Specialists[j]].state # "none"]
           sub == SubContext(a, ContextOf(2))
           w == IF sub.ok THEN Pending ELSE Rejected(sub.err[1])
       IN  /\ other' = <<[other[1] EXCEPT
                             !.inner = IF sub.ok
                                       THEN [other[1].inner EXCEPT ![a] = AgentAnalyze(a, sub.ctx[1])]
                                       ELSE other[1].inner,
                             !.wrapper = [other[1].wrapper EXCEPT ![a] = w],
                             !.pc = FanOutNext(a, w)]>>
           /\ queue' = IF sub.ok THEN Append(queue, [kind |-> "resume2", agent |-> a]) ELSE queue
    /\ clock' = clock + 1
    /\ UNCHANGED <<slowLuxuryClient, agent, context, pc, result, error, inner, wrapper, joined, recs, final,
                   run, firstRun>>

AwaitAllOther ==
    /\ other # <<>>
    /\ other[1].pc = "join"
    /\ LET IsRejected(a) == other[1].wrapper[a].state = "rejected"
           Reaction(a) == [kind |-> "reaction2", agent |-> a]
       IN  queue' = queue \o Map(Filter(Specialists, IsRejected), Reaction)
    /\ other' = <<[other[1] EXCEPT
                      !.joined = [NotJoined EXCEPT !.state = "pending", !.remaining = Len(Specialists)],
                      !.pc = "await"]>>
    /\ clock' = clock + 1
    /\ UNCHANGED <<slowLuxuryClient, agent, context, pc, result, error, inner, wrapper, joined, recs, final,
                   run, firstRun>>

ResumeWrapperOther ==
    /\ other # <<>>
    /\ other[1].pc \in {"await", "done"}
    /\ queue # <<>>
    /\ Head(queue).kind = "resume2"
    /\ LET a == Head(queue).agent
       IN  /\ other' = <<[other[1] EXCEPT !.wrapper[a] = WrapperSettle(other[1].inner[a])]>>
           /\ queue' = Append(Tail(queue), [kind |-> "reaction2", agent |-> a])
    /\ clock' = clock + 1
    /\ UNCHANGED <<slowLuxuryClient, agent, context, pc, result, error, inner, wrapper, joined, recs, final,
                   run, firstRun>>

AllReactionOther ==
    /\ other # <<>>
    /\ other[1].pc \in {"await", "done"}
    /\ queue # <<>>
    /\ Head(queue).kind = "reaction2"
    /\ LET a == Head(queue).agent
           j == PromiseAllSettle(other[1].joined, a, other[1].wrapper[a])
       IN  /\ other' = <<[other[1] EXCEPT !.joined = j]>>
           /\ queue' = IF other[1].joined.state = "pending" /\ j.state # "pending"
                       THEN Append(Tail(queue), [kind |-> "analyze2", agent |-> "txa"])
                       ELSE Tail(queue)
    /\ clock' = clock + 1
    /\ UNCHANGED <<slowLuxuryClient, agent, context, pc, result, error, inner, wrapper, joined, recs, final,
                   run, firstRun>>

ResumeAnalyzeOther ==
    /\ other # <<>>
    /\ other[1].pc = "await"
    /\ queue # <<>>
    /\ Head(queue).kind = "analyze2"
    /\ queue' = Tail(queue)
    /\ other' =
          IF other[1].joined.state = "fulfilled"
          THEN LET recommendations == [a \in SpecialistSet |-> other[1].joined.values[a][1]]
               IN  <<[other[1] EXCEPT
                         !.result = <<applyCoordinationRules(recommendations, ContextOf(2))>>,
                         !.pc = "done"]>>
          ELSE <<[other[1] EXCEPT !.error = other[1].joined.reason, !.pc = "done"]>>
    /\ clock' = clock + 1
    /\ UNCHANGED <<slowLuxuryClient, agent, context, pc, result, error, inner, wrapper, joined, recs, final,
                   run, firstRun>>

\* afterwards each of the two contexts is analysed once more, with no other call in progress
RunAlone ==
    /\ pc = "done"
    /\ queue = <<>>
    /\ \/ /\ run = 1
          /\ other # <<>>
          /\ other[1].pc = "done"
          /\ firstRun' = <<[context |-> context, result |-> result, error |-> error,
                            overlap |-> other[1].overlap],
                           [context |-> other[1].context, result |-> other[1].result,
                            error |-> other[1].error, overlap |-> other[1].overlap]>>
          /\ context' = context
       \/ /\ run = 2
          /\ firstRun' = firstRun
          /\ context' = firstRun[2].context
    /\ run' = run + 1
    /\ other' = <<>>
    /\ pc' = "validate"
    /\ result' = <<>>
    /\ error' = <<>>
    /\ inner' = [a \in SpecialistSet |-> NoPromise]
    /\ wrapper' = [a \in SpecialistSet |-> NoPromise]
    /\ joined' = NotJoined
    /\ recs' = <<>>
    /\ final' = <<>>
    /\ clock' = clock + 1
    /\ UNCHANGED <<slowLuxuryClient, agent, queue>>

\* the first call's steps; a microtask of it runs only between the second call's synchronous parts
NextPair ==
    \/ Validate /\ OtherSuspended
    \/ DecideStep /\ OtherSuspended
    \/ LogStart /\ OtherSuspended
    \/ CallSpecialist /\ OtherSuspended
    \/ AwaitAll /\ OtherSuspended
    \/ ResumeWrapper /\ OtherSuspended
    \/ AllReaction /\ OtherSuspended
    \/ ResumeAnalyze /\ OtherSuspended
    \/ StartOther
    \/ ValidateOther
    \/ DecideOther
    \/ LogOther
    \/ CallSpecialistOther
    \/ AwaitAllOther
    \/ ResumeWrapperOther
    \/ AllReactionOther
    \/ ResumeAnalyzeOther
    \/ RunAlone

SpecPair == InitPair /\ [][NextPair]_vars

---------------------------------------------------------------------------
(* applyCoordinationRules as a function of any four recommendations *)

\* one recommendation of every branch of every specialist
BranchRecommendations(a) ==
    CASE a = "health" ->
            {HealthDecide(Spread(Base, [sleepQuality |-> Some(sq), energyRating |-> Some(3),
                                        consecutiveActiveDays |-> Some(1), plannedActivity |-> pa])) :
                sq \in {2, 3}, pa \in {Undefined,
                    Some([type |-> Some("golf"), physicalLoad |-> Some("high"),
                          estimatedSteps |-> Some(10000)])}}
            \cup {HealthDecide(Spread(Base, [consecutiveActiveDays |-> Some(0)]))}
      [] a = "golf" ->
            {GolfDecide(Spread(Base, [location |-> Some(loc), consecutiveGolfDays |-> Some(gd),
                                      weatherForecast |-> w, availableCourses |-> Some(<<BaNaHills>>)])).value[1] :
                loc \in {LocDaNang, LocTokyo}, gd \in {0, MaxGolfDays},
                w \in {Undefined, Some([condition |-> "any", temperature |-> 36, humidity |-> 85,
                                        rainfall |-> Undefined])}}
      [] a = "budget" ->
            {BudgetDecide(Spread(Base, Spread([trip |-> Some(Trip),
                    categorySpend |-> Some(<<[category |-> "golf", planned |-> 100, actual |-> actual],
                                             [category |-> "dining", planned |-> 100, actual |-> 50]>>)],
                    Opt("unusedPrepaid", up)))).value[1] :
                actual \in {100, 115, 130}, up \in PrepaidLists}
      [] a = "transport" ->
            {TransportDecide(Spread(Base, Spread(Field("currentLocation", Some(LocDaNang)),
                    Spread(Opt("nextDestination", nxt), Opt("luggageCount", lug))))).value[1] :
                nxt \in {Undefined, Some(LocTokyo)}, lug \in {Undefined, Some(4)}}
            \cup {recommendBufferIncrease(
                    [insufficient |-> TRUE, requiredBuffer |-> AIRPORT_BUFFER,
                     details |-> <<"Requires", ToString(AIRPORT_BUFFER), "minute", "buffer", "for", "flight">>],
                    TransportCollectSignals(SampleContext("transport")))}

\* the branch recommendations, one of them under every priority and approval flag,
\* and a Health recommendation whose actions hold an empty string as a separator
AnyRecommendations(a) ==
    BranchRecommendations(a)
    \cup {[r EXCEPT !.priority = p, !.approvalRequired = ap] :
            r \in {CHOOSE x \in BranchRecommendations(a) : x.priority = "low"},
            p \in Priorities, ap \in BOOLEAN}
    \cup (IF a = "health"
          THEN {[r EXCEPT !.outputActions = << <<"Rest">>, <<>>, <<"Hydrate">> >>] :
                    r \in {x \in BranchRecommendations(a) : x.priority = "critical"}}
          ELSE {})

InitRules ==
    /\ agent = "txa"
    /\ context = SampleContext("txa")
    /\ pc = "rules"
    /\ result = <<>>
    /\ error = <<>>
    /\ inner = [a \in SpecialistSet |-> NoPromise]
    /\ wrapper = [a \in SpecialistSet |-> NoPromise]
    /\ queue = <<>>
    /\ joined = NotJoined
    /\ recs \in {<<[health |-> h, golf |-> g, budget |-> b, transport |-> t]>> :
                    h \in AnyRecommendations("health"), g \in AnyRecommendations("golf"),
                    b \in AnyRecommendations("budget"), t \in AnyRecommendations("transport")}
    /\ final = <<>>
    /\ run = 1
    /\ firstRun = <<>>
    /\ clock = 0
    /\ slowLuxuryClient = <<>>
    /\ other = <<>>

ApplyRules ==
    /\ pc = "rules"
    /\ final' = <<applyCoordinationRules(recs[1], context)>>
    /\ result' = final'
    /\ pc' = "done"
    /\ UNCHANGED <<slowLuxuryClient, agent, context, error, inner, wrapper, queue, joined, recs, run, firstRun, other>>
    /\ clock' = clock + 1

NextRules == ApplyRules

SpecRules == InitRules /\ [][NextRules]_vars

---------------------------------------------------------------------------
(* Properties of applyCoordinationRules, over SpecRules *)

C2_FirstMatchingRung ==
    final # <<>> =>
        LET health == recs[1].health
            golf == recs[1].golf
            budget == recs[1].budget
            transport == recs[1].transport
            out == final[1]
            Urgent(r) == r.priority \in {"high", "critical"}
            Carries(actions) ==
                /\ Len(actions) <= Len(out.outputActions)
                /\ SubSeq(out.outputActions, 1, Len(actions)) = actions
            Names(decision) ==
                \E i \in 1..Len(out.outputActions) : Includes(out.outputActions[i], decision)
        IN  IF Urgent(health)
            THEN /\ out.decision = <<"Health", "priority", "override">>
                 /\ Carries(health.outputActions)
                 /\ out.priority = health.priority
                 /\ out.approvalRequired = health.approvalRequired
            ELSE IF Urgent(transport)
            THEN /\ out.decision = <<"Logistics", "priority", "override">>
                 /\ Carries(transport.outputActions)
                 /\ out.priority = transport.priority
                 /\ out.approvalRequired = transport.approvalRequired
            ELSE IF budget.priority = "critical"
            THEN /\ out.decision = <<"Budget", "control", "intervention">>
                 /\ Carries(budget.outputActions)
                 /\ out.priority = "critical"
                 /\ out.approvalRequired = TRUE
            ELSE IF golf.approvalRequired
            THEN /\ out.decision = <<"Golf", "activity", "adjustment", "recommended">>
                 /\ out.outputActions = golf.outputActions
                 /\ out.priority = golf.priority
                 /\ out.approvalRequired = TRUE
            ELSE /\ out.decision = <<"Proceed", "with", "planned", "itinerary">>
                 /\ out.priority = "low"
                 /\ out.approvalRequired = FALSE
                 /\ Names(health.decision) /\ Names(golf.decision)
                 /\ Names(budget.decision) /\ Names(transport.decision)

\* the Budget rung is taken although Golf asks for approval and Transport is medium
C2_Witness ==
    /\ final # <<>>
    /\ recs[1].health.priority = "medium"
    /\ recs[1].transport.priority = "medium"
    /\ recs[1].budget.priority = "critical"
    /\ ~recs[1].budget.approvalRequired
    /\ recs[1].golf.approvalRequired
    /\ final[1].decision = <<"Budget", "control", "intervention">>
    /\ final[1].approvalRequired

---------------------------------------------------------------------------
(* Properties of analyze(), over Spec *)

\* C3. If any of the four specialist calls fails during the fan-out,
\* TravelExperienceAgent.analyze returns no recommendation and fails with the
\* error of a failed call; a final recommendation is only ever built from four
\* successful specialist results.
C3_NoPartialRecommendation ==
    agent = "txa" =>
        /\ (\E a \in SpecialistSet : inner[a].state = "rejected" \/ wrapper[a].state = "rejected")
              => (result = <<>> /\ final = <<>>)
        /\ \A a \in SpecialistSet :
              (inner[a].state = "rejected" /\ wrapper[a].state \notin {"none", "pending"})
                  => (wrapper[a].state = "rejected" /\ wrapper[a].reason = inner[a].reason)
        /\ (pc = "done" /\ \E a \in SpecialistSet : wrapper[a].state # "none")
              => \/ /\ result # <<>>
                    /\ error = <<>>
                    /\ \A a \in SpecialistSet :
                          /\ inner[a].state = "fulfilled"
                          /\ wrapper[a].state = "fulfilled"
                          /\ recs[1][a] = inner[a].value[1]
                 \/ /\ result = <<>>
                    /\ error # <<>>
                    /\ \E a \in SpecialistSet :
                          wrapper[a].state = "rejected" /\ error = wrapper[a].reason

\* analyze has failed with Golf's error while Health's call succeeded
C3_Witness ==
    /\ agent = "txa"
    /\ pc = "done"
    /\ wrapper["health"].state = "fulfilled"
    /\ inner["golf"].state = "rejected"
    /\ error = inner["golf"].reason
    /\ result = <<>>

\* C4. The coordination rules are applied, and a recommendation returned, only
\* after all four specialist calls have completed: there is no first-to-finish
\* path.  Once the fan-out is issued every one of the four specialists is
\* invoked, also after another one has failed, and when nothing is left to
\* run every call has settled.
C4_AllCompleteBarrier ==
    agent = "txa" =>
        /\ (final # <<>> \/ result # <<>>)
              => /\ joined.state = "fulfilled" /\ joined.remaining = 0
                 /\ \A a \in SpecialistSet : wrapper[a].state = "fulfilled"
        /\ (pc \in {"join", "await", "done"} /\ \E a \in SpecialistSet : wrapper[a].state # "none")
              => \A a \in SpecialistSet :
                    /\ wrapper[a].state # "none"
                    /\ inner[a].state = "none" => ~SubContext(a, context).ok
        /\ (pc = "done" /\ queue = <<>>)
              => \A a \in SpecialistSet : wrapper[a].state # "pending"

\* Health's call failed first; Transport was still invoked and ran to completion
C4_Witness ==
    /\ agent = "txa"
    /\ pc = "done"
    /\ queue = <<>>
    /\ wrapper["health"].state = "rejected"
    /\ inner["transport"].state = "fulfilled"
    /\ wrapper["transport"].state = "fulfilled"
    /\ result = <<>>

\* C5. For every agent, analyze called with a context that lacks one or more
\* of the fields the agent requires fails before any decision rule is
\* evaluated, with an error whose message contains the agent's name and the
\* name of every missing field; no recommendation is returned.
C5_MissingFieldsRejected ==
    LET missing == RequiredSet(agent) \ DOMAIN context
    IN  (pc # "rules" /\ missing # {}) =>
            /\ pc \in {"validate", "done"}
            /\ result = <<>>
            /\ final = <<>>
            /\ \A a \in SpecialistSet : inner[a].state = "none" /\ wrapper[a].state = "none"
            /\ pc = "done" =>
                  /\ error # <<>>
                  /\ Includes(error[1].message, AgentName(agent))
                  /\ \A f \in missing : Includes(error[1].message, <<f>>)

\* the orchestrator has rejected a context lacking both trip and currentItinerary
C5_Witness ==
    /\ agent = "txa"
    /\ pc = "done"
    /\ {"trip", "currentItinerary"} \subseteq RequiredSet(agent) \ DOMAIN context
    /\ error # <<>>
    /\ Includes(error[1].message, <<"trip">>)
    /\ Includes(error[1].message, <<"currentItinerary">>)

\* C6 as stated: GolfOperationsAgent.analyze called with a Vietnam location
\* but without consecutiveGolfDays fails with the missing-context validation
\* error instead of producing a recommendation.
C6_AsStated ==
    (/\ agent = "golf"
     /\ pc = "done"
     /\ {"tripId", "userId", "date", "location"} \subseteq DOMAIN context
     /\ "consecutiveGolfDays" \notin DOMAIN context
     /\ context.location \in {Some(LocDaNang), Some(LocHanoi), Some(LocHoiAn), Some(LocSaigon)})
        => /\ result = <<>>
           /\ error # <<>>
           /\ Includes(error[1].message, <<"missing", "required", "context", "fields:">>)
           /\ Includes(error[1].message, <<"consecutiveGolfDays">>)

\* C7. Every recommendation a specialist agent returns, called directly or by
\* the orchestrator, has a priority among low, medium, high and critical, and
\* has approvalRequired true whenever its priority is high or critical.
C7_ApprovalWithUrgency ==
    LET Pattern(rec) ==
            /\ rec.priority \in {"low", "medium", "high", "critical"}
            /\ rec.priority \in {"high", "critical"} => rec.approvalRequired = TRUE
    IN  /\ (agent \in SpecialistSet /\ result # <<>>) => Pattern(result[1])
        /\ \A a \in SpecialistSet : inner[a].state = "fulfilled" => Pattern(inner[a].value[1])

\* the Budget agent has returned a high-priority adjustment that requires approval
C7_Witness ==
    /\ agent = "budget"
    /\ pc = "done"
    /\ result # <<>>
    /\ result[1].priority = "high"
    /\ result[1].approvalRequired

C10_OutsideVietnamIsLow ==
    LET Elsewhere == {Some(LocTokyo), Some(LocDanang), Some(LocHaNoi), Some(<<>>)}
        Low(rec) == rec.priority = "low" /\ rec.outputActions = <<>>
    IN  /\ (/\ agent = "golf"
            /\ pc = "done"
            /\ RequiredSet("golf") \subseteq DOMAIN context
            /\ context.location \in Elsewhere)
               => (result # <<>> /\ Low(result[1]))
        /\ (/\ agent = "txa"
            /\ inner["golf"].state # "none"
            /\ context.currentItinerary[1].location \in Elsewhere)
               => (inner["golf"].state = "fulfilled" /\ Low(inner["golf"].value[1]))

\* 'Ha Noi, Vietnam' after two golf days in extreme heat: still low, no actions
C10_Witness ==
    /\ agent = "golf"
    /\ pc = "done"
    /\ RequiredSet("golf") \subseteq DOMAIN context
    /\ context.location = Some(LocHaNoi)
    /\ "consecutiveGolfDays" \in DOMAIN context /\ context.consecutiveGolfDays = <<2>>
    /\ "weatherForecast" \in DOMAIN context /\ context.weatherForecast[1].temperature = 36
    /\ result # <<>>
    /\ result[1].priority = "low"
    /\ result[1].outputActions = <<>>

---------------------------------------------------------------------------
(* Properties of the specialists' decision rules, over Spec *)

C12_StrictThresholds ==
    (/\ agent = "budget"
     /\ pc = "done"
     /\ result # <<>>)
        => LET spend == context.categorySpend[1]
               critical == \E i \in 1..Len(spend) :
                              spend[i].planned > 0 /\ spend[i].actual * 10 > spend[i].planned * 12
               alert == \E i \in 1..Len(spend) :
                              spend[i].planned > 0 /\ spend[i].actual * 10 > spend[i].planned * 11
           IN  /\ result[1].priority = "critical" <=> critical
               /\ result[1].priority = "high" <=> (alert /\ ~critical)

\* one category exactly 20% over and one exactly 10% over: the alert branch, not the critical one
C12_Witness ==
    /\ agent = "budget"
    /\ pc = "done"
    /\ result # <<>>
    /\ "categorySpend" \in DOMAIN context
    /\ context.categorySpend =
          Some(<<[category |-> "golf", planned |-> 100, actual |-> 120],
                 [category |-> "dining", planned |-> 100, actual |-> 110]>>)
    /\ result[1].priority = "high"

\* C12 as stated: over all integer planned/actual amounts, a category triggers
\* the alert branch exactly when actual*10 > planned*11 and the critical
\* branch exactly when actual*10 > planned*12.
C12_AsStated ==
    (/\ agent = "budget"
     /\ pc = "done"
     /\ result # <<>>)
        => LET spend == context.categorySpend[1]
               critical == \E i \in 1..Len(spend) : spend[i].actual * 10 > spend[i].planned * 12
               alert == \E i \in 1..Len(spend) : spend[i].actual * 10 > spend[i].planned * 11
           IN  /\ result[1].priority = "critical" <=> critical
               /\ result[1].priority = "high" <=> (alert /\ ~critical)

\* C13. If at least one category is more than 20% over plan,
\* BudgetControlAgent.analyze returns the critical-overrun recommendation
\* (priority critical, approvalRequired true) whose actions name every
\* critical category with its planned, actual and signed delta, whatever
\* alert-level overruns other categories have and whatever unusedPrepaid is.
C13_CriticalOverrun ==
    (/\ agent = "budget"
     /\ pc = "done"
     /\ RequiredSet("budget") \subseteq DOMAIN context
     /\ context.categorySpend # <<>>
     /\ \E i \in 1..Len(context.categorySpend[1]) :
           /\ context.categorySpend[1][i].planned > 0
           /\ context.categorySpend[1][i].actual * 5 > context.categorySpend[1][i].planned * 6)
        => LET spend == context.categorySpend[1]
               IsCritical(i) == spend[i].planned > 0 /\ spend[i].actual * 5 > spend[i].planned * 6
               Line(i) == <<spend[i].category, ":", "planned", ToString(spend[i].planned), ",",
                            "actual", ToString(spend[i].actual), "(", "+",
                            ToString(spend[i].actual - spend[i].planned), ")">>
           IN  /\ result # <<>>
               /\ result[1].decision = <<"CRITICAL:", "Budget", "overrun", "detected">>
               /\ result[1].priority = "critical"
               /\ result[1].approvalRequired = TRUE
               /\ \A i \in 1..Len(spend) :
                     IsCritical(i) =>
                        /\ \E k \in 1..Len(result[1].outputActions) :
                              result[1].outputActions[k] = Line(i)
                        /\ Includes(result[1].rationale, <<spend[i].category, ":">>)

\* golf is 21% over, dining 11% over, and a prepaid green fee is unused
C13_Witness ==
    /\ agent = "budget"
    /\ pc = "done"
    /\ result # <<>>
    /\ "categorySpend" \in DOMAIN context
    /\ context.categorySpend =
          Some(<<[category |-> "golf", planned |-> 100, actual |-> 121],
                 [category |-> "dining", planned |-> 100, actual |-> 111]>>)
    /\ "unusedPrepaid" \in DOMAIN context
    /\ Len(context.unusedPrepaid[1]) > 0
    /\ result[1].priority = "critical"
    /\ \E k \in 1..Len(result[1].outputActions) :
          result[1].outputActions[k] =
             <<"golf", ":", "planned", "100", ",", "actual", "121", "(", "+", "21", ")">>

\* C14. When nextDestination is present, the risks TransportLogisticsAgent
\* reports are exactly the conditions that hold among luggageCount > 3,
\* non-empty mobilityConsiderations, more than 2 planned segments and
\* departure hour < 7, one entry each and in that order; if at least one holds
\* the result is the risk-mitigation recommendation, priority medium without
\* approval; if none holds no risk is reported.
C14_RisksAreTheConditions ==
    (/\ agent = "transport"
     /\ pc = "done"
     /\ RequiredSet("transport") \subseteq DOMAIN context
     /\ context.currentLocation # <<>>
     /\ "nextDestination" \in DOMAIN context
     /\ context.nextDestination[1] # <<>>)
        => LET Has(k) == k \in DOMAIN context
               expected ==
                      (IF Has("luggageCount") /\ context.luggageCount[1] > 3
                       THEN << <<"-", "Heavy", "luggage", "count", "may", "slow", "movement">> >>
                       ELSE <<>>)
                   \o (IF Has("mobilityConsiderations") /\ Len(context.mobilityConsiderations[1]) > 0
                       THEN << <<"-", "Mobility", "considerations:">>
                               \o Join(context.mobilityConsiderations[1], <<",">>) >>
                       ELSE <<>>)
                   \o (IF Has("plannedSegments") /\ Len(context.plannedSegments[1]) > 2
                       THEN << <<"-", "Multiple", "transport", "segments", "increase", "fatigue",
                                 "and", "delay", "risk">> >>
                       ELSE <<>>)
                   \o (IF Has("departureTime") /\ context.departureTime[1] = <<"0", "6", ":", "3", "0">>
                       THEN << <<"-", "Early", "departure", "may", "impact", "sleep", "quality">> >>
                       ELSE <<>>)
               n == Len(expected)
               actions == result[1].outputActions
           IN  /\ result # <<>>
               /\ IF n = 0
                  THEN /\ result[1].decision = <<"Transport", "plan", "confirmed">>
                       /\ \A i \in 1..Len(actions) : actions[i] # <<"Risk factors identified:">>
                  ELSE /\ result[1].decision = <<"Transport", "risk", "factors", "detected">>
                       /\ result[1].priority = "medium"
                       /\ result[1].approvalRequired = FALSE
                       /\ actions[1] = <<"Risk factors identified:">>
                       /\ SubSeq(actions, 2, n + 1) = expected
                       /\ actions[n + 2] = <<>>
                       /\ actions[n + 3] = <<"Recommended mitigations:">>
                       /\ result[1].rationale[1] = ToString(n)

\* four pieces of luggage, no mobility issue, one segment, departure 09:00: luggage only
C14_Witness ==
    /\ agent = "transport"
    /\ pc = "done"
    /\ result # <<>>
    /\ {"nextDestination", "luggageCount", "plannedSegments", "departureTime"} \subseteq DOMAIN context
    /\ "mobilityConsiderations" \notin DOMAIN context
    /\ context.nextDestination = Some(LocTokyo)
    /\ context.luggageCount = <<4>>
    /\ Len(context.plannedSegments[1]) = 1
    /\ context.departureTime = Some(<<"0", "9", ":", "0", "0">>)
    /\ result[1].priority = "medium"
    /\ result[1].outputActions[2] = <<"-", "Heavy", "luggage", "count", "may", "slow", "movement">>
    /\ result[1].outputActions[3] = <<>>

---------------------------------------------------------------------------
(* Further properties of applyCoordinationRules, over SpecRules *)

\* C15. When Health's priority is high or critical, the outputActions of the
\* final recommendation are exactly Health's outputActions in the same order,
\* empty strings included, followed by one empty string and the note that the
\* other agents' recommendations were deferred; its rationale contains
\* Health's rationale verbatim.
C15_HealthActionsCarried ==
    (final # <<>> /\ recs[1].health.priority \in {"high", "critical"}) =>
        LET health == recs[1].health
            n == Len(health.outputActions)
        IN  /\ Len(final[1].outputActions) = n + 2
            /\ \A i \in 1..n : final[1].outputActions[i] = health.outputActions[i]
            /\ final[1].outputActions[n + 1] = <<>>
            /\ final[1].outputActions[n + 2] =
                  <<"Other agent recommendations deferred to prioritize well-being.">>
            /\ Includes(final[1].rationale, health.rationale)

\* Health is critical and its actions hold an empty string between two entries
C15_Witness ==
    /\ final # <<>>
    /\ recs[1].health.priority = "critical"
    /\ Len(recs[1].health.outputActions) = 3
    /\ recs[1].health.outputActions[2] = <<>>
    /\ final[1].outputActions[2] = <<>>
    /\ Len(final[1].outputActions) = 5
    /\ Len(recs[1].health.rationale) > 1
    /\ Includes(final[1].rationale, recs[1].health.rationale)

---------------------------------------------------------------------------
(* Properties of repeated calls, over SpecTwice *)

---------------------------------------------------------------------------
(* Transport buffer check *)

\* C17. Whatever transport type, times and locations the context holds,
\* TransportLogisticsAgent.analyze never returns the 'Insufficient transport
\* buffer' recommendation: a returned recommendation has priority low or
\* medium and approvalRequired = false.
C17_BufferAlwaysSufficient ==
    (agent = "transport" /\ pc = "done" /\ result # <<>>) =>
        /\ result[1].decision # <<"Insufficient", "transport", "buffer">>
        /\ result[1].priority \in {"low", "medium"}
        /\ result[1].approvalRequired = FALSE

\* an international flight, which requires the 120 minute airport buffer, is confirmed
C17_Witness ==
    /\ agent = "transport"
    /\ pc = "done"
    /\ result # <<>>
    /\ TruthyText(Get(context, "nextDestination"))
    /\ TruthyText(Get(context, "departureTime"))
    /\ Get(context, "transportType") = Some(<<"flight">>)
    /\ assessBuffers(context).requiredBuffer = AIRPORT_BUFFER
    /\ result[1].decision = <<"Transport", "plan", "confirmed">>

---------------------------------------------------------------------------
(* Moderation actions *)

\* C18. As stated: every moderate-activity recommendation of
\* HealthRecoveryAgent contains the actions to reduce walking below the steps
\* target, to prefer a private car and to add a midday rest, whichever of the
\* three moderation conditions triggered it.  The code adds them only when the
\* planned steps exceed the target.
C18_AsStated ==
    (/\ agent = "health"
     /\ pc = "done"
     /\ result # <<>>
     /\ result[1].decision = <<"Moderate", "planned", "activity", "to", "reduce", "physical", "load">>)
        => LET actions == result[1].outputActions
               Has(a) == \E i \in 1..Len(actions) : actions[i] = a
           IN  /\ Has(<<"Reduce", "walking", "to", "<", ToString(StepsTarget(context)), "steps">>)
               /\ Has(<<"Consider private car for longer distances">>)
               /\ Has(<<"Schedule midday rest break">>)

---------------------------------------------------------------------------
(* Heat substitution *)

\* C19. As stated: whenever GolfOperationsAgent substitutes for heat rather
\* than rain (rainfall not above 10), the outputActions name a mountain-climate
\* course when one is listed in availableCourses, and otherwise contain an
\* earlier tee time and a hydration break; neither the outputActions nor the
\* rationale is empty.  The code fills them only above 35 degrees.
C19_AsStated ==
    (/\ agent = "golf"
     /\ pc = "done"
     /\ result # <<>>
     /\ result[1].decision = <<"Substitute", "golf", "course", "due", "to", "weather">>
     /\ ~(/\ TruthyNum(Get(Val(context.weatherForecast), "rainfall"))
          /\ Gt(Get(Val(context.weatherForecast), "rainfall"), 10)))
        => LET actions == result[1].outputActions
               courses == IF IsDefined(Get(context, "availableCourses"))
                          THEN Val(context.availableCourses) ELSE <<>>
               mountain == {i \in 1..Len(courses) : courses[i].climate = "mountain"}
               Names(i) == \E k \in 1..Len(actions) : Includes(actions[k], courses[i].name)
           IN  /\ actions # <<>>
               /\ result[1].rationale # <<>>
               /\ IF mountain # {}
                  THEN \E i \in mountain : Names(i)
                  ELSE \E k \in 1..Len(actions) :
                          actions[k] \in { <<"Very early tee time (before 7am)">>,
                                           <<"Extended midpoint break for hydration">> }

---------------------------------------------------------------------------
(* Reallocation in the alert branch *)

\* C20. As stated: in the Budget alert branch, every over-budget category is
\* either paired with an under-budget category whose surplus covers its delta,
\* with the transfer amount proposed, or, when no under-budget category has
\* sufficient surplus, the output recommends trimming upcoming discretionary
\* spend.  The code gives the trimming advice only when no category at all is
\* under budget.
C20_AsStated ==
    (/\ agent = "budget"
     /\ pc = "done"
     /\ result # <<>>
     /\ result[1].decision = <<"Budget", "variance", "detected", "-", "adjustment", "recommended">>)
        => LET actions == result[1].outputActions
               Has(a) == \E i \in 1..Len(actions) : actions[i] = a
               spends == Val(context.categorySpend)
               Over(i) == spends[i].planned > 0
                          /\ (spends[i].actual - spends[i].planned) * 10 > spends[i].planned
               Delta(i) == spends[i].actual - spends[i].planned
               Covers(j, i) == /\ spends[j].actual < spends[j].planned
                               /\ spends[j].planned - spends[j].actual >= Delta(i)
           IN  \A i \in 1..Len(spends) :
                  Over(i) =>
                     \/ \E j \in 1..Len(spends) :
                           /\ Covers(j, i)
                           /\ Has(<<"-", "Reallocate", ToString(Delta(i)), "from",
                                    spends[j].category, "to", spends[i].category>>)
                     \/ /\ ~\E j \in 1..Len(spends) : Covers(j, i)
                        /\ Has(<<"Consider reducing upcoming discretionary expenses">>)

---------------------------------------------------------------------------
(* Risk mitigations *)

\* C21. As stated: in the Transport risk-mitigation recommendation the
\* mitigation group of a risk category (luggage, mobility, segment count, early
\* departure) is emitted if and only if that risk is among the identified
\* risks; non-empty mobilityConsiderations always yields the wheelchair and
\* priority-boarding mitigations.  The code looks for the lower-case word
\* 'mobility' in a risk text that begins with 'Mobility'.
C21_AsStated ==
    (/\ agent = "transport"
     /\ pc = "done"
     /\ result # <<>>
     /\ result[1].decision = <<"Transport", "risk", "factors", "detected">>)
        => LET actions == result[1].outputActions
               Has(a) == \E i \in 1..Len(actions) : actions[i] = a
               luggage == Get(context, "luggageCount")
               mobility == Get(context, "mobilityConsiderations")
               segments == Get(context, "plannedSegments")
               departure == Get(context, "departureTime")
               luggageRisk == TruthyNum(luggage) /\ Gt(luggage, 3)
               mobilityRisk == IsDefined(mobility) /\ Len(Val(mobility)) > 0
               segmentRisk == IsDefined(segments) /\ Len(Val(segments)) > 2
               earlyRisk == TruthyText(departure) /\ isEarlyDeparture(Val(departure))
           IN  /\ luggageRisk <=> (/\ Has(<<"- Arrange porter or luggage assistance">>)
                                   /\ Has(<<"- Consider shipping some items ahead">>))
               /\ luggageRisk <=> (\/ Has(<<"- Arrange porter or luggage assistance">>)
                                   \/ Has(<<"- Consider shipping some items ahead">>))
               /\ mobilityRisk <=> (/\ Has(<<"- Pre-book wheelchair or mobility assistance">>)
                                    /\ Has(<<"- Request priority boarding">>))
               /\ mobilityRisk <=> (\/ Has(<<"- Pre-book wheelchair or mobility assistance">>)
                                    \/ Has(<<"- Request priority boarding">>)
                                    \/ Has(<<"- Allocate extra time for boarding">>))
               /\ segmentRisk <=> (/\ Has(<<"- Build in rest periods between segments">>)
                                   /\ Has(<<"- Consider overnight stay to break up journey">>))
               /\ earlyRisk <=> (/\ Has(<<"- Ensure 8-hour sleep window before departure">>)
                                 /\ Has(<<"- Prepare luggage night before">>)
                                 /\ Has(<<"- Arrange express checkout">>))

---------------------------------------------------------------------------
(* Skip golf *)

---------------------------------------------------------------------------
(* Course recommendation *)

---------------------------------------------------------------------------
(* Properties of concurrent calls, over SpecPair *)

---------------------------------------------------------------------------
(* Approval requests of the specialists *)

---------------------------------------------------------------------------
(* What the orchestrator can reach *)

\* C26. For every TravelExperienceContext with the declared properties only,
\* the sub-contexts the orchestrator derives give Transport no nextDestination
\* and give Budget actual = 0 for every category, so the Transport and Budget
\* recommendations have priority low; and for every context the final decision
\* of TravelExperienceAgent.analyze is the Health override, the Golf adjustment
\* or the proceed-as-planned one, never 'Logistics priority override' nor
\* 'Budget control intervention'.
C26_OnlyHealthGolfProceed ==
    (agent = "txa" /\ pc = "done") =>
        LET declared == {"tripId", "userId", "date", "trip", "wellnessProfile", "currentItinerary",
                         "travelerFeedback", "weather", "budgetStatus"}
            transport == SubContext("transport", context)
            budget == SubContext("budget", context)
        IN  /\ result # <<>> =>
                  result[1].decision \in { <<"Health", "priority", "override">>,
                                           <<"Golf", "activity", "adjustment", "recommended">>,
                                           <<"Proceed", "with", "planned", "itinerary">> }
            /\ (recs # <<>> /\ DOMAIN context \subseteq declared) =>
                  /\ transport.ok
                  /\ ~IsDefined(Get(transport.ctx[1], "nextDestination"))
                  /\ recs[1].transport.decision = <<"No", "transport", "scheduled">>
                  /\ recs[1].transport.priority = "low"
                  /\ budget.ok
                  /\ \A i \in 1..Len(Val(budget.ctx[1].categorySpend)) :
                        Val(budget.ctx[1].categorySpend)[i].actual = 0
                  /\ recs[1].budget.priority = "low"

\* a hot golf day with a planned golf budget: the Golf adjustment is the final decision
C26_Witness ==
    /\ agent = "txa"
    /\ pc = "done"
    /\ recs # <<>>
    /\ result # <<>>
    /\ DOMAIN context \subseteq {"tripId", "userId", "date", "trip", "wellnessProfile",
                                 "currentItinerary", "travelerFeedback", "weather", "budgetStatus"}
    /\ Len(Val(SubContext("budget", context).ctx[1].categorySpend)) > 0
    /\ Val(SubContext("budget", context).ctx[1].categorySpend)[1].planned > 0
    /\ result[1].decision = <<"Golf", "activity", "adjustment", "recommended">>

---------------------------------------------------------------------------
(* Transfers out of one category *)

\* C27. As stated: in the Budget alert branch the total of the transfer amounts
\* proposed out of any single under-budget category never exceeds that
\* category's surplus (planned minus actual), even when several over-budget
\* categories are matched.  The code matches every overrun against the full
\* surplus of each source.
C27_AsStated ==
    (/\ agent = "budget"
     /\ pc = "done"
     /\ result # <<>>
     /\ result[1].decision = <<"Budget", "variance", "detected", "-", "adjustment", "recommended">>)
        => LET actions == result[1].outputActions
               Has(a) == \E i \in 1..Len(actions) : actions[i] = a
               spends == Val(context.categorySpend)
               Delta(i) == spends[i].actual - spends[i].planned
               Transfer(i, j) == <<"-", "Reallocate", ToString(Delta(i)), "from",
                                   spends[j].category, "to", spends[i].category>>
               Out(j) ==
                   LET S[i \in 0..Len(spends)] ==
                           IF i = 0 THEN 0
                           ELSE S[i - 1] + (IF Delta(i) > 0 /\ Has(Transfer(i, j)) THEN Delta(i) ELSE 0)
                   IN  S[Len(spends)]
           IN  \A j \in 1..Len(spends) :
                  spends[j].actual < spends[j].planned
                     => Out(j) <= spends[j].planned - spends[j].actual

---------------------------------------------------------------------------
(* Cultural days *)

\* C28. As stated: when the orchestrator runs for a day whose primaryIntent is
\* 'culture' and Health selects the moderation branch, Health's outputActions
\* include the cultural substitutions (seated experience, no walking tours,
\* climate-controlled venue).  The orchestrator passes the type 'culture';
\* Health looks for 'cultural'.
C28_AsStated ==
    (/\ agent = "txa"
     /\ pc = "done"
     /\ recs # <<>>
     /\ Get(Val(context.currentItinerary), "primaryIntent") = Some("culture")
     /\ recs[1].health.decision = <<"Moderate", "planned", "activity", "to", "reduce", "physical", "load">>)
        => LET actions == recs[1].health.outputActions
               Has(a) == \E i \in 1..Len(actions) : actions[i] = a
           IN  /\ Has(<<"Select seated cultural experience (theater, tea ceremony)">>)
               /\ Has(<<"Avoid walking tours">>)
               /\ Has(<<"Choose venue with climate control">>)

---------------------------------------------------------------------------
(* Tool calls with an argument left out *)

\* C29. As stated: a health_recovery_analysis tool call that omits
\* consecutiveActiveDays produces an error naming the missing field, never a
\* recommendation.  The handler writes the key with the value undefined, and
\* validateContext asks only whether the key is in the object.
C29_AsStated ==
    (/\ agent = "health"
     /\ pc = "done"
     /\ "consecutiveActiveDays" \in DOMAIN context
     /\ ~IsDefined(context.consecutiveActiveDays))
        => /\ result = <<>>
           /\ error # <<>>
           /\ Includes(error[1].message, <<"consecutiveActiveDays">>)

-----------------------------------------------------------------------------
\* SlowLuxuryClient: connect() and disconnect() called by several callers of one
\* client object.  Each call runs synchronously up to its await and is resumed
\* when the SDK operation it awaits settles; a caller may issue a call whenever
\* no synchronous code is running, so also while other calls are suspended.

MaxCallers == 3

\* the state after the constructor: connected = false, no transport, no call made
InitClient ==
    /\ agent = "txa"
    /\ context = SampleContext("txa")
    /\ pc = "done"
    /\ result = <<>>
    /\ error = <<>>
    /\ inner = [a \in SpecialistSet |-> NoPromise]
    /\ wrapper = [a \in SpecialistSet |-> NoPromise]
    /\ queue = <<>>
    /\ joined = NotJoined
    /\ recs = <<>>
    /\ final = <<>>
    /\ run = 1
    /\ firstRun = <<>>
    /\ clock = 0
    /\ other = <<>>
    /\ slowLuxuryClient = [connected |-> FALSE,
                           transport |-> Undefined,
                           established |-> 0,
                           calls |-> [k \in 1..MaxCallers |-> [op |-> "none", pc |-> "idle", message |-> <<>>]]]

\* connect() up to its await: throws when connected is set, otherwise stores a
\* new transport (named after the call that created it) and awaits
\* client.connect(transport)
connect(k) ==
    /\ slowLuxuryClient # <<>>
    /\ slowLuxuryClient.calls[k].pc = "idle"
    /\ slowLuxuryClient.calls[k].op = "none"
    /\ IF slowLuxuryClient.connected
       THEN slowLuxuryClient' =
                [slowLuxuryClient EXCEPT
                    !.calls[k] = [op |-> "connect", pc |-> "rejected",
                                  message |-> <<"Client", "already", "connected">>]]
       ELSE slowLuxuryClient' =
                [slowLuxuryClient EXCEPT
                    !.transport = Some(k),
                    !.calls[k] = [op |-> "connect", pc |-> "await", message |-> <<>>]]
    /\ UNCHANGED <<agent, context, pc, result, error, inner, wrapper, queue, joined, recs,
                   final, run, firstRun, clock, other>>

\* the awaited client.connect(transport) settles: when it resolves connect()
\* sets connected and returns, when it rejects connect() rejects with the SDK's
\* error and connected is left alone
connectResumes(k) ==
    /\ slowLuxuryClient # <<>>
    /\ slowLuxuryClient.calls[k].op = "connect"
    /\ slowLuxuryClient.calls[k].pc = "await"
    /\ \E resolves \in BOOLEAN :
          IF resolves
          THEN slowLuxuryClient' =
                   [slowLuxuryClient EXCEPT
                       !.connected = TRUE,
                       !.established = @ + 1,
                       !.calls[k] = [op |-> "connect", pc |-> "resolved", message |-> <<>>]]
          ELSE slowLuxuryClient' =
                   [slowLuxuryClient EXCEPT
                       !.calls[k] = [op |-> "connect", pc |-> "rejected",
                                     message |-> <<"transport", "error">>]]
    /\ UNCHANGED <<agent, context, pc, result, error, inner, wrapper, queue, joined, recs,
                   final, run, firstRun, clock, other>>

\* disconnect() up to its await: returns at once when connected is not set,
\* otherwise awaits client.close()
disconnect(k) ==
    /\ slowLuxuryClient # <<>>
    /\ slowLuxuryClient.calls[k].pc = "idle"
    /\ slowLuxuryClient.calls[k].op = "none"
    /\ slowLuxuryClient' =
           [slowLuxuryClient EXCEPT
               !.calls[k] = [op |-> "disconnect",
                             pc |-> IF slowLuxuryClient.connected THEN "await" ELSE "resolved",
                             message |-> <<>>]]
    /\ UNCHANGED <<agent, context, pc, result, error, inner, wrapper, queue, joined, recs,
                   final, run, firstRun, clock, other>>

\* the awaited client.close() settles: when it resolves disconnect() clears
\* connected and returns, when it rejects disconnect() rejects
disconnectResumes(k) ==
    /\ slowLuxuryClient # <<>>
    /\ slowLuxuryClient.calls[k].op = "disconnect"
    /\ slowLuxuryClient.calls[k].pc = "await"
    /\ \E resolves \in BOOLEAN :
          IF resolves
          THEN slowLuxuryClient' =
                   [slowLuxuryClient EXCEPT
                       !.connected = FALSE,
                       !.established = 0,
                       !.calls[k] = [op |-> "disconnect", pc |-> "resolved", message |-> <<>>]]
          ELSE slowLuxuryClient' =
                   [slowLuxuryClient EXCEPT
                       !.calls[k] = [op |-> "disconnect", pc |-> "rejected",
                                     message |-> <<"close", "error">>]]
    /\ UNCHANGED <<agent, context, pc, result, error, inner, wrapper, queue, joined, recs,
                   final, run, firstRun, clock, other>>

\* the caller has seen its call settle and may issue another one
callerContinues(k) ==
    /\ slowLuxuryClient # <<>>
    /\ slowLuxuryClient.calls[k].pc \in {"resolved", "rejected"}
    /\ slowLuxuryClient' = [slowLuxuryClient EXCEPT !.calls[k] = [op |-> "none", pc |-> "idle", message |-> <<>>]]
    /\ UNCHANGED <<agent, context, pc, result, error, inner, wrapper, queue, joined, recs,
                   final, run, firstRun, clock, other>>

NextClient ==
    \/ \E k \in 1..MaxCallers : connect(k)
    \/ \E k \in 1..MaxCallers : connectResumes(k)
    \/ \E k \in 1..MaxCallers : disconnect(k)
    \/ \E k \in 1..MaxCallers : disconnectResumes(k)
    \/ \E k \in 1..MaxCallers : callerContinues(k)

SpecClient == InitClient /\ [][NextClient]_vars

\* C30. As stated: between two disconnects at most one connection is
\* established, and a connect() issued while another connect() is in progress
\* or after one has succeeded fails with 'Client already connected' and
\* changes nothing: so no two connect() calls are ever past the connected test
\* together, none is past it while connected is set by another, and the
\* transport stored is the one of the only connect() that got past the test.
\* connect() sets connected only after its await, so a second connect() issued
\* during the await passes the test and replaces the transport.
C30_AsStated ==
    slowLuxuryClient # <<>> =>
        LET calls == slowLuxuryClient.calls
            InProgress == {k \in 1..MaxCallers : calls[k].op = "connect" /\ calls[k].pc = "await"}
        IN  /\ Cardinality(InProgress) <= 1
            /\ slowLuxuryClient.connected => InProgress = {}
            /\ slowLuxuryClient.established <= 1
            /\ \A k \in InProgress : slowLuxuryClient.transport = Some(k)

=============================================================================
